---- MODULE Spec2Model ----
(***************************************************************************)
(* A model of the repository index and fetch pipeline of debian-packaging  *)
(* (src/debian-packaging/src/repository/mod.rs): the verified copy of      *)
(* RepositoryWriter::copy_from, the root reader's fetch operations and the *)
(* release reader's checksum and compression negotiation.                  *)
(*                                                                         *)
(* The module holds several specifications over one set of variables; each *)
(* specification drives one group of variables and leaves the others at    *)
(* their idle value:                                                       *)
(*   SpecCopy     RepositoryWriter::copy_from, run twice on one writer     *)
(*   SpecFetch    RepositoryRootReader fetch operations                    *)
(*   SpecRelease  ReleaseReader checksum / preferred compression queries   *)
(*   SpecEntry    ReleaseReader packages_entry / sources_entry /           *)
(*                contents_entry                                           *)
(*   SpecResolve  ReleaseReader resolve_package_fetches /                  *)
(*                resolve_source_fetches / resolve_contents                *)
(*   SpecExtract  the same, over Packages paragraphs of every shape        *)
(*   SpecSources  the same, over Sources paragraphs of every shape         *)
(*   SpecAbort    the same, over index files that fail or end badly        *)
(*   SpecDecoded  the same, over index files read behind a decoder         *)
(*   SpecSelect   the same, with file filters that look at compressions    *)
(*   SpecTerminates  the same, with the fairness of the executor           *)
(*   SpecLifetime resolve operations, retrieve_checksum and                *)
(*                set_preferred_compression on one reader                  *)
(*   SpecReader   RepositoryRootReader::release_reader                     *)
(*   SpecFromStr  reader_from_str and writer_from_str                      *)
(*   SpecEvents   PublishEvent::is_progress and is_loggable                *)
(***************************************************************************)
EXTENDS Integers, Sequences, FiniteSets, TLC

VARIABLES
    \* ---- copy_from (RepositoryWriter) ----
    cf_pc,            \* position inside copy_from
    cf_args,          \* the arguments of the call
    cf_reader,        \* the source repository: path -> blob
    cf_writer,        \* the writer: its kind and its store, path -> blob
    cf_trace,         \* events delivered and calls made by this execution, in order
    cf_verification,  \* the state verify_path returned ("none" before)
    cf_stream,        \* the stream obtained from the reader
    cf_result,        \* what copy_from returned
    cf_run,           \* "first" or "second" execution with the same inputs
    cf_first,         \* the result of the first execution
    \* ---- RepositoryRootReader fetch operations ----
    rf_pc,            \* position inside the running operation ("idle" between calls)
    rf_op,            \* the operation called and its arguments
    rf_pool,          \* the pool of the repository: path -> blob
    rf_dist,          \* the release files of the repository: path -> form
    rf_trace,         \* calls made by the running operation, in order
    rf_stream,        \* the stream the operation holds or returned
    rf_sub,           \* the fetch_inrelease / fetch_release in progress
    rf_attempt,       \* what the InRelease attempt returned
    rf_result,        \* what the operation returned
    rf_read,          \* what the caller got reading a returned stream to its end
    \* ---- ReleaseReader queries ----
    rr_release,       \* the parsed Release file the reader is bound to
    rr_preferred,     \* the reader's preferred_compression
    rr_op,            \* the last operation called and its argument
    rr_result,        \* what that operation returned
    \* ---- ReleaseReader resolution of fetches ----
    rs_repo,          \* Acquire-By-Hash and what the index files may hold
    rs_call,          \* the resolve operation called and its arguments
    rs_run            \* the state of that call

copyVars == <<cf_pc, cf_args, cf_reader, cf_writer, cf_trace, cf_verification,
              cf_stream, cf_result, cf_run, cf_first>>

fetchVars == <<rf_pc, rf_op, rf_pool, rf_dist, rf_trace, rf_stream, rf_sub,
               rf_attempt, rf_result, rf_read>>

releaseVars == <<rr_release, rr_preferred, rr_op, rr_result>>

resolveVars == <<rs_repo, rs_call, rs_run>>

\* What the steps of copy_from leave alone.
notCopyVars == <<fetchVars, releaseVars, resolveVars>>

\* What the root reader's fetch operations leave alone.
notFetchVars == <<copyVars, releaseVars, resolveVars>>

\* What the release reader's operations leave alone.
notReleaseVars == <<copyVars, fetchVars, resolveVars>>

\* What the resolve operations leave alone: they read the release variables.
notResolveVars == <<copyVars, fetchVars, releaseVars>>

vars == <<copyVars, fetchVars, releaseVars, resolveVars>>

(***************************************************************************)
(* Bounds of the model.                                                    *)
(***************************************************************************)
\* Longest blob, in bytes.
MaxLen == 1

\* Most index entries a checksum table of a Release file lists.
MaxEntries == 2

\* Most futures a caller of resolve_package_fetches or resolve_source_fetches
\* lets run at once.
MaxThreads == 2

\* Longest distribution string passed to release_reader, in characters.
MaxDistribution == 5

\* Longest path of a string passed to reader_from_str or writer_from_str, in
\* tokens.
MaxPath == 4

Bytes == {0, 1}

Paths == {"pool/a.deb", "pool/b.deb"}

(***************************************************************************)
(* Blobs, digests, expected content.                                       *)
(***************************************************************************)
Contents == UNION {[1..n -> Bytes] : n \in 0..MaxLen}

Absent == [present |-> FALSE, data |-> <<>>]

Blob(data) == [present |-> TRUE, data |-> data]

Blobs == {Absent} \cup {Blob(c) : c \in Contents}

\* An injective stand-in for a cryptographic hash over the bounded contents:
\* the bijective base-3 numeral of the bytes.
RECURSIVE Enc(_)
Enc(B) == IF B = <<>> THEN 0 ELSE (B[1] + 1) + 3 * Enc(Tail(B))

\* ContentDigest: the algorithm and the hash value.
HashOf(algo, B) == [algo |-> algo, val |-> Enc(B)]

NoDigest == [algo |-> "none", val |-> 0]

\* Option<(u64, ContentDigest)>
NoExpected == [some |-> FALSE, size |-> 0, digest |-> NoDigest]

SomeExpected(size, digest) == [some |-> TRUE, size |-> size, digest |-> digest]

ExpectedContents ==
    {NoExpected} \cup
    {SomeExpected(n, HashOf("Sha256", c)) : n \in 0..MaxLen, c \in Contents}

(***************************************************************************)
(* DebianError (error.rs).  An error value is its variant, the path it     *)
(* names ("" when it names none) and the cause it wraps.                   *)
(***************************************************************************)
DebianErrorKinds ==
    {"FileManifestError", "Url", "Pgp", "DateParse", "Reqwest", "Io", "ParseInt",
     "ContentDigestBadHex", "ControlParseError", "ControlFileNoParagraph",
     "ControlFileNotFound", "ControlSimpleValueNoMultiline",
     "ControlRequiredFieldMissing", "ControlFieldIntParse",
     "ControlFieldTimestampParse", "ControlPackageListMissingField",
     "DebianSourceControlFileParagraphMismatch", "DebUnknownBinaryPackageEntry",
     "DebUnknownCompression", "RepositoryReaderUnrecognizedUrl",
     "RepositoryWriterUnrecognizedUrl", "RepositoryReadReleaseNoKnownChecksum",
     "RepositoryReadContentsIndicesEntryNotFound",
     "RepositoryReadPackagesIndicesEntryNotFound",
     "RepositoryReadSourcesIndicesEntryNotFound",
     "RepositoryReadCouldNotDeterminePackageDigest", "RepositoryNoPackagesIndices",
     "RepositoryIoPath", "RepositoryBuildUnknownComponent",
     "RepositoryBuildUnknownArchitecture", "RepositoryBuildPoolLayoutImmutable",
     "RepositoryBuildDebNotAvailable", "ReleaseControlParagraphMismatch",
     "ReleaseMissingDigest", "ReleaseMissingSize", "ReleaseMissingPath",
     "ReleasePathWithSpaces", "ReleaseIndicesEntryWrongType", "ReleaseNoSignatures",
     "ReleaseNoSignaturesByKey", "ReleaseNoIndicesFiles", "DependencyParse",
     "UnknownBinaryDependencyField", "EpochNonNumeric", "UpstreamVersionIllegalChar",
     "DebianRevisionIllegalChar", "S3BadRegion", "SinkWriterVerifyBehaviorUnknown",
     "Other"}

\* The variants that carry a std::io::Error: what a failed read or write of a
\* byte stream can surface as.
IoErrorVariants == {"Io", "RepositoryIoPath"} \cap DebianErrorKinds

NoError == [variant |-> "none", path |-> "", cause |-> "none"]

RepositoryIoPath(path, cause) ==
    [variant |-> "RepositoryIoPath", path |-> path, cause |-> cause]

\* From<std::io::Error>: the variant Io names no path.
IoError(cause) == [variant |-> "Io", path |-> "", cause |-> cause]

\* std::io::ErrorKind values a transport reports besides NotFound.
TransportErrorKinds == {"PermissionDenied", "ConnectionRefused", "TimedOut"}

(***************************************************************************)
(* Byte streams.  get_path hands out the blob's bytes as they are;         *)
(* get_path_with_digest_verification wraps them in a reader that counts    *)
(* and hashes what passes and fails at end-of-stream when the count or the *)
(* hash differs from what was expected.                                    *)
(***************************************************************************)
NoStream ==
    [open |-> FALSE, fn |-> "none", path |-> "", size |-> 0, digest |-> NoDigest,
     data |-> <<>>]

PlainStream(path, data) ==
    [open |-> TRUE, fn |-> "get_path", path |-> path, size |-> 0,
     digest |-> NoDigest, data |-> data]

VerifiedStream(path, size, digest, data) ==
    [open |-> TRUE, fn |-> "get_path_with_digest_verification", path |-> path,
     size |-> size, digest |-> digest, data |-> data]

\* Whether the terminal check of a verified stream passes.
StreamVerifies(stream) ==
    /\ Len(stream.data) = stream.size
    /\ HashOf(stream.digest.algo, stream.data) = stream.digest

\* Reading a stream to its end: the bytes, and whether end-of-stream was
\* reached without error.
ReadToEnd(stream) ==
    IF stream.fn = "get_path_with_digest_verification" /\ ~StreamVerifies(stream)
    THEN [ok |-> FALSE, data |-> stream.data, cause |-> "IntegrityMismatch"]
    ELSE [ok |-> TRUE, data |-> stream.data, cause |-> "none"]

(***************************************************************************)
(* Writers.  RepositoryWriter leaves verify_path and write_path to the     *)
(* backends: a writer that hashes what it holds ("checking"), one that     *)
(* only tests existence ("nocheck"), and the sink writer, which answers    *)
(* every verification with its configured state and discards what it is    *)
(* given.                                                                  *)
(***************************************************************************)
RepositoryPathVerificationState ==
    {"ExistsNoIntegrityCheck", "ExistsIntegrityVerified", "ExistsIntegrityMismatch",
     "Missing"}

WriterKinds == {"checking", "nocheck", "sink"}

Writer(kind, behavior, store) == [kind |-> kind, behavior |-> behavior, store |-> store]

\* Whether the writer hashes existing content in verify_path.
PerformsIntegrityChecks(writer) == writer.kind = "checking"

BlobMatches(blob, expected) ==
    /\ Len(blob.data) = expected.size
    /\ HashOf(expected.digest.algo, blob.data) = expected.digest

\* verify_path(path, expected_content): the state reported.
VerifyPathState(writer, path, expected) ==
    CASE writer.kind = "sink" -> writer.behavior
      [] ~writer.store[path].present -> "Missing"
      [] writer.kind = "nocheck" \/ ~expected.some -> "ExistsNoIntegrityCheck"
      [] BlobMatches(writer.store[path], expected) -> "ExistsIntegrityVerified"
      [] OTHER -> "ExistsIntegrityMismatch"

\* RepositoryWrite { path, bytes_written }
RepositoryWrite(path, bytes_written) == [path |-> path, bytes_written |-> bytes_written]

NoWrite == RepositoryWrite("", 0)

\* The store after write_path(path, reader) took `data` from the reader.
StoreAfterWrite(writer, path, data) ==
    IF writer.kind = "sink" THEN writer.store
    ELSE [writer.store EXCEPT ![path] = Blob(data)]

(***************************************************************************)
(* RepositoryWriteOperation and PublishEvent values; the trace.            *)
(***************************************************************************)
NoResult == [kind |-> "none", path |-> "", bytes |-> 0, err |-> NoError]

\* RepositoryWriteOperation::Noop(path, size)
Noop(path, size) == [kind |-> "Noop", path |-> path, bytes |-> size, err |-> NoError]

\* RepositoryWriteOperation::PathWritten(write)
PathWritten(write) ==
    [kind |-> "PathWritten", path |-> write.path, bytes |-> write.bytes_written,
     err |-> NoError]

Err(e) == [kind |-> "Err", path |-> "", bytes |-> 0, err |-> e]

\* One entry of the trace: an event delivered to the callback, a call made,
\* or a call's return.
Entry(k, name, p1, p2, exp, stream, st, write) ==
    [k |-> k, name |-> name, p1 |-> p1, p2 |-> p2, exp |-> exp, stream |-> stream,
     st |-> st, write |-> write]

Event(name, p1, p2) == Entry("event", name, p1, p2, NoExpected, NoStream, "", NoWrite)

CallVerifyPath(path, exp) ==
    Entry("call", "verify_path", path, "", exp, NoStream, "", NoWrite)

RetVerifyPath(st) == Entry("ret", "verify_path", "", "", NoExpected, NoStream, st, NoWrite)

CallGetPath(path) == Entry("call", "get_path", path, "", NoExpected, NoStream, "", NoWrite)

CallGetPathWithDigestVerification(path, size, digest) ==
    Entry("call", "get_path_with_digest_verification", path, "",
          SomeExpected(size, digest), NoStream, "", NoWrite)

RetStream(name, stream) == Entry("ret", name, "", "", NoExpected, stream, "", NoWrite)

CallWritePath(path, stream) ==
    Entry("call", "write_path", path, "", NoExpected, stream, "", NoWrite)

RetWritePath(write) == Entry("ret", "write_path", "", "", NoExpected, NoStream, "", write)

\* The events of a trace, in the order they were delivered.
RECURSIVE EventsOf(_)
EventsOf(t) ==
    IF t = <<>> THEN <<>>
    ELSE IF t[1].k = "event" THEN <<t[1]>> \o EventsOf(Tail(t))
    ELSE EventsOf(Tail(t))

\* The positions of a trace holding a call of `name`.
CallsOf(t, name) == {i \in 1..Len(t) : t[i].k = "call" /\ t[i].name = name}

\* The copy variables of a specification that never calls copy_from.
CopyIdle ==
    /\ cf_pc = "idle"
    /\ cf_args = [source_path |-> "", expected_content |-> NoExpected,
                  dest_path |-> "", has_cb |-> FALSE]
    /\ cf_reader = [p \in Paths |-> Absent]
    /\ cf_writer = Writer("sink", "Missing", [p \in Paths |-> Absent])
    /\ cf_trace = <<>>
    /\ cf_verification = "none"
    /\ cf_stream = NoStream
    /\ cf_result = NoResult
    /\ cf_run = "first"
    /\ cf_first = NoResult

(***************************************************************************)
(* ReleaseReader: the parsed Release file, its index entries and the       *)
(* reader's preferred compression.                                         *)
(***************************************************************************)
\* ChecksumType, in the order retrieve_checksum walks it.
ChecksumOrder == <<"Sha256", "Sha1", "Md5">>

ChecksumTypes == {ChecksumOrder[i] : i \in DOMAIN ChecksumOrder}

\* ChecksumType::field_name: the Release field holding the checksum table.
FieldName(checksum) ==
    CASE checksum = "Sha256" -> "SHA256"
      [] checksum = "Sha1" -> "SHA1"
      [] checksum = "Md5" -> "MD5Sum"

ChecksumFields == {FieldName(c) : c \in ChecksumTypes}

\* Compression, in the order of its declaration.
CompressionList == <<"None", "Gzip", "Xz", "Bzip2", "Lzma", "Zstd">>

Compressions == {CompressionList[i] : i \in DOMAIN CompressionList}

\* Compression::default_preferred_order
DefaultPreferredOrder == <<"Xz", "Bzip2", "Gzip", "Lzma", "None", "Zstd">>

\* The index files a Release file may list, without their compression:
\* (kind, component, architecture, is_installer).
IndexFiles ==
    <<<<"Packages", "main", "amd64", FALSE>>,
      <<"Packages", "main", "amd64", TRUE>>,
      <<"Sources", "main", "", FALSE>>>>

\* One line of a checksum table, classified.  `checksum` is the table an
\* entry was read from ("" while it is a line of the Release file).
IndexEntry(kind, component, architecture, is_installer, compression, checksum) ==
    [kind |-> kind, component |-> component, architecture |-> architecture,
     is_installer |-> is_installer, compression |-> compression,
     checksum |-> checksum]

\* The lines a table may hold, numbered file by file, each file in every
\* compression.
LineCount == Len(IndexFiles) * Len(CompressionList)

Line(n) ==
    LET file == IndexFiles[((n - 1) \div Len(CompressionList)) + 1]
        compression == CompressionList[((n - 1) % Len(CompressionList)) + 1]
    IN  IndexEntry(file[1], file[2], file[3], file[4], compression, "")

IndexEntries == {Line(n) : n \in 1..LineCount}

\* The tables: each lists an index file once, its lines in one order.  (The
\* operations read a table through groups keyed by file; two lines of one
\* group and one compression would be the same file.)
Tables ==
    LET Increasing(at) == \A i, j \in DOMAIN at : i < j => at[i] < at[j]
        places == {at \in UNION {[1..n -> 1..LineCount] : n \in 0..MaxEntries} :
                      Increasing(at)}
    IN  {[i \in DOMAIN at |-> Line(at[i])] : at \in places}

\* ReleaseFile: the checksum fields it has and the lines its checksum tables
\* list.  A file without a checksum table lists nothing.
ReleaseFile(fields, entries) == [fields |-> fields, entries |-> entries]

ReleaseFiles ==
    {ReleaseFile(f, e) : f \in SUBSET ChecksumFields \ {{}}, e \in Tables}
    \cup {ReleaseFile({}, <<>>)}

\* ReleaseFile::field(name).is_some()
HasField(release, name) == name \in release.fields

\* ReleaseFile::iter_packages_indices / iter_sources_indices: the lines of
\* the table of `checksum` that classify as `kind`, None without the table.
IterIndices(release, kind, checksum) ==
    IF ~HasField(release, FieldName(checksum))
    THEN [some |-> FALSE, entries |-> <<>>]
    ELSE [some |-> TRUE,
          entries |->
              LET Of(e) == e.kind = kind
                  lines == SelectSeq(release.entries, Of)
              IN  [i \in DOMAIN lines |-> [lines[i] EXCEPT !.checksum = checksum]]]

\* What a ReleaseReader operation returns.
NoAnswer == [kind |-> "none", checksum |-> "", entries |-> <<>>, err |-> NoError]

OkChecksum(checksum) ==
    [kind |-> "Checksum", checksum |-> checksum, entries |-> <<>>, err |-> NoError]

OkEntries(entries) ==
    [kind |-> "Entries", checksum |-> "", entries |-> entries, err |-> NoError]

OkEntry(entry) == OkEntries(<<entry>>)

ErrAnswer(variant) ==
    [kind |-> "Err", checksum |-> "", entries |-> <<>>,
     err |-> [variant |-> variant, path |-> "", cause |-> "none"]]

Query(name, arg) == [name |-> name, arg |-> arg]

NoQuery == Query("", "")

\* The release variables of a specification that uses no release reader.
ReleaseIdle ==
    /\ rr_release = ReleaseFile({}, <<>>)
    /\ rr_preferred = "None"
    /\ rr_op = NoQuery
    /\ rr_result = NoAnswer

(***************************************************************************)
(* ReleaseReader resolution: the index files of the repository, their      *)
(* paragraphs, and the fetches resolved from them.                         *)
(***************************************************************************)
\* The values of the Release file's Acquire-By-Hash field ("absent" without
\* the field).
ByHashValues == {"absent", "yes", "no"}

\* release.acquire_by_hash().unwrap_or_default()
AcquireByHash(field) == field = "yes"

\* The directory of an index file below the distribution.
DirOf(entry) ==
    <<entry.component, entry.is_installer, entry.kind, entry.architecture>>

\* The digest a checksum table gives for an index file.
EntryDigest(entry) ==
    [algo |-> entry.checksum,
     of |-> <<DirOf(entry), entry.compression>>]

\* entry.path: the path the table lists.
NominalPath(entry) ==
    [form |-> "nominal", dir |-> DirOf(entry), name |-> <<entry.kind, entry.compression>>,
     algo |-> "", digest |-> <<>>]

\* entry.by_hash_path(): {dir}/by-hash/{ALGO}/{hex digest}
ByHashPath(entry) ==
    [form |-> "by-hash", dir |-> DirOf(entry), name |-> <<>>,
     algo |-> FieldName(entry.checksum), digest |-> <<EntryDigest(entry)>>]

\* Mutant of IndexPath: the nominal path, whatever the Release file says.
IndexPathNominal(by_hash, entry) == NominalPath(entry)

\* Lines 474-478, 599-603, 734-738.
IndexPath(by_hash, entry) ==
    IF AcquireByHash(by_hash) THEN ByHashPath(entry) ELSE NominalPath(entry)

\* Field values are texts: sequences of characters.
Digits == <<"0", "1", "2", "3", "4", "5", "6", "7", "8", "9">>

HexDigits == Digits \o <<"a", "b", "c", "d", "e", "f">>

\* The value of a character among `digits`, -1 when it is none of them.
DigitValue(digits, char) ==
    IF \E i \in DOMAIN digits : digits[i] = char
    THEN (CHOOSE i \in DOMAIN digits : digits[i] = char) - 1
    ELSE -1

RECURSIVE NumberIn(_, _)
\* The number a text of `digits` denotes, -1 when a character is no digit.
NumberIn(digits, text) ==
    IF text = <<>>
    THEN 0
    ELSE LET front == NumberIn(digits, SubSeq(text, 1, Len(text) - 1))
             last == DigitValue(digits, text[Len(text)])
         IN  IF front < 0 \/ last < 0 THEN -1 ELSE front * Len(digits) + last

\* An absent field, and a field with a text.
NoField == [some |-> FALSE, text |-> <<>>]

Field(text) == [some |-> TRUE, text |-> text]

\* A paragraph of a Packages file.  `sums` gives its checksum fields, by the
\* name ChecksumType::field_name has for them.
BinaryPackageControlFile(package, filename, size, sums) ==
    [package |-> package, filename |-> filename, size |-> size, sums |-> sums]

\* Results of the extraction of a value from a paragraph.
OkValue(value) == [ok |-> TRUE, value |-> value, err |-> NoError]

ErrValue(variant, what) ==
    [ok |-> FALSE, value |-> <<>>,
     err |-> [variant |-> variant, path |-> what, cause |-> "none"]]

\* cf.required_field_str(name)
RequiredFieldStr(field, name) ==
    IF field.some
    THEN OkValue(field.text)
    ELSE ErrValue("ControlRequiredFieldMissing", name)

\* cf.field_u64(name): None without the field, else the parse of its text.
FieldU64(field, name) ==
    IF ~field.some
    THEN [some |-> FALSE, parsed |-> OkValue(<<>>)]
    ELSE [some |-> TRUE,
          parsed |-> IF field.text # <<>> /\ NumberIn(Digits, field.text) >= 0
                     THEN OkValue(NumberIn(Digits, field.text))
                     ELSE ErrValue("ControlFieldIntParse", name)]

\* ContentDigest::from_hex_digest(checksum, hex)
FromHexDigest(checksum, hex) ==
    IF Len(hex) % 2 = 0 /\ NumberIn(HexDigits, hex) >= 0
    THEN OkValue([algo |-> checksum, len |-> Len(hex) \div 2,
                  val |-> NumberIn(HexDigits, hex)])
    ELSE ErrValue("ContentDigestBadHex", "")

\* ChecksumType::preferred_order()
PreferredOrder == <<"Sha256", "Sha1", "Md5">>

\* BinaryPackageFetch
BinaryPackageFetch(control_file, path, size, digest) ==
    [control_file |-> control_file, path |-> path, size |-> size, digest |-> digest]

\* Mutant of PackageDigest: the digest of the last checksum field the
\* paragraph has.
PackageDigestWeakest(cf) ==
    LET found == {i \in DOMAIN PreferredOrder :
                      cf.sums[FieldName(PreferredOrder[i])].some}
    IN  IF found = {}
        THEN ErrValue("RepositoryReadCouldNotDeterminePackageDigest", "")
        ELSE LET last == PreferredOrder[CHOOSE i \in found : \A j \in found : i >= j]
             IN  FromHexDigest(last, cf.sums[FieldName(last)].text)

\* Lines 557-563: the digest of the first checksum field the paragraph has.
PackageDigest(cf) ==
    LET found == {i \in DOMAIN PreferredOrder :
                      cf.sums[FieldName(PreferredOrder[i])].some}
    IN  IF found = {}
        THEN ErrValue("RepositoryReadCouldNotDeterminePackageDigest", "")
        ELSE LET first == PreferredOrder[CHOOSE i \in found : \A j \in found : i <= j]
             IN  FromHexDigest(first, cf.sums[FieldName(first)].text)

\* Mutant of PackageFetchOf: a paragraph without Size has size 0.
PackageFetchOfDefaultSize(cf) ==
    LET path == RequiredFieldStr(cf.filename, "Filename")
        size == FieldU64(cf.size, "Size")
        digest == PackageDigest(cf)
    IN  IF ~path.ok THEN path
        ELSE IF size.some /\ ~size.parsed.ok THEN size.parsed
        ELSE IF ~digest.ok THEN digest
        ELSE OkValue(BinaryPackageFetch(cf, path.value,
                         IF size.some THEN size.parsed.value ELSE 0, digest.value))

\* Lines 551-570: the fetch of an accepted paragraph, or the first error.
PackageFetchOf(cf) ==
    LET path == RequiredFieldStr(cf.filename, "Filename")
        size == FieldU64(cf.size, "Size")
        digest == PackageDigest(cf)
    IN  IF ~path.ok THEN path
        ELSE IF ~size.some THEN ErrValue("ControlRequiredFieldMissing", "Size")
        ELSE IF ~size.parsed.ok THEN size.parsed
        ELSE IF ~digest.ok THEN digest
        ELSE OkValue(BinaryPackageFetch(cf, path.value, size.parsed.value,
                                        digest.value))

\* A paragraph of a Sources file: the files its table for each checksum
\* lists (no table: an absent field).
DebianSourceControlFile(package, files) == [package |-> package, files |-> files]

\* SourcePackageFetch
SourcePackageFetch(control_file, fetch) ==
    [control_file |-> control_file, fetch |-> fetch]

\* cf.file_fetches(checksum)?: one fetch per file of the table of `checksum`.
FileFetches(cf, checksum) ==
    LET table == cf.files[FieldName(checksum)]
    IN  IF ~table.some
        THEN ErrValue("ControlRequiredFieldMissing", FieldName(checksum))
        ELSE OkValue([i \in DOMAIN table.text |->
                         SourcePackageFetch(cf, [file |-> table.text[i],
                                                 algo |-> checksum])])

\* The filters a caller passes: packages_file_filter / sources_file_filter
\* over index entries, binary_package_filter / source_package_filter over
\* paragraphs.
FileFilters == {"every file", "main only"}

AcceptsFile(filter, entry) ==
    CASE filter = "every file" -> TRUE
      [] filter = "main only" -> entry.component = "main"
      [] filter = "Gzip only" -> entry.compression = "Gzip"

PackageFilters == {"every package", "package a only"}

AcceptsPackage(filter, cf) ==
    CASE filter = "every package" -> TRUE
      [] filter = "package a only" -> cf.package = "a"

\* What the repository answers to the request of an index file: its
\* paragraphs, or the failure of the request or of the read.  With the status
\* "ok" the verified stream was read to its end and passed its check; with
\* "UncheckedEnd" the decoder met the end of its compressed data, and so
\* ended the decoded stream, before the verified stream below it was read to
\* its end: the bytes served are not those the Release file lists.
Served(status, list) == [status |-> status, list |-> list]

\* Mutant of FromEntry: a failed request counts as an empty index file.
FromEntryIgnoresFailure(path, served) == OkValue(served.list)

\* What resolve_*_from_entry returns for an answer: lines 481-496, 606-621.
FromEntry(path, served) ==
    CASE served.status = "ok" -> OkValue(served.list)
      [] served.status = "UncheckedEnd" -> OkValue(served.list)
      [] served.status = "NotFound" -> ErrValue("RepositoryIoPath", <<path>>)
      [] served.status = "IntegrityMismatch" -> ErrValue("Io", "")
      [] served.status = "ParseError" -> ErrValue("ControlParseError", "")

\* Mutant of Emitted: every fetch is pushed twice.
EmittedTwice(kind, cf, checksum) ==
    IF kind = "Packages"
    THEN LET fetch == PackageFetchOf(cf)
         IN  IF fetch.ok THEN OkValue(<<fetch.value, fetch.value>>) ELSE fetch
    ELSE FileFetches(cf, checksum)

\* Mutant of Emitted: the files of a source paragraph are always those of its
\* SHA-256 table.
EmittedSha256Table(kind, cf, checksum) ==
    IF kind = "Packages"
    THEN LET fetch == PackageFetchOf(cf)
         IN  IF fetch.ok THEN OkValue(<<fetch.value>>) ELSE fetch
    ELSE FileFetches(cf, "Sha256")

\* Lines 550-571 and 669-677: what an accepted paragraph adds to the fetches.
Emitted(kind, cf, checksum) ==
    IF kind = "Packages"
    THEN LET fetch == PackageFetchOf(cf)
         IN  IF fetch.ok THEN OkValue(<<fetch.value>>) ELSE fetch
    ELSE FileFetches(cf, checksum)

RECURSIVE GatherExtractingAll(_, _, _, _, _)
\* Mutant of Gather: the fields of every paragraph are extracted, and the
\* filter decides only whether the fetch is kept.
GatherExtractingAll(kind, list, filter, checksum, fetches) ==
    IF list = <<>>
    THEN OkValue(fetches)
    ELSE LET emitted == Emitted(kind, Head(list), checksum)
         IN  IF ~emitted.ok
             THEN emitted
             ELSE GatherExtractingAll(kind, Tail(list), filter, checksum,
                      IF AcceptsPackage(filter, Head(list))
                      THEN fetches \o emitted.value ELSE fetches)

RECURSIVE Gather(_, _, _, _, _)
\* Lines 546-572 and 668-679: the for loop over the paragraphs of one index
\* file, pushing to `fetches` and stopping at the first error.
Gather(kind, list, filter, checksum, fetches) ==
    IF list = <<>>
    THEN OkValue(fetches)
    ELSE IF ~AcceptsPackage(filter, Head(list))
    THEN Gather(kind, Tail(list), filter, checksum, fetches)
    ELSE LET emitted == Emitted(kind, Head(list), checksum)
         IN  IF emitted.ok
             THEN Gather(kind, Tail(list), filter, checksum,
                         fetches \o emitted.value)
             ELSE emitted

\* The call in progress.
ResolveCall(name, file_filter, package_filter, threads) ==
    [name |-> name, file_filter |-> file_filter, package_filter |-> package_filter,
     threads |-> threads]

NoResolveCall == ResolveCall("", "", "", 0)

\* What a resolve operation returned.
NotResolved == [kind |-> "none", fetches |-> <<>>, err |-> NoError]

Resolved(fetches) == [kind |-> "Ok", fetches |-> fetches, err |-> NoError]

\* Mutant of ResolveFailed: the fetches pushed before the error are returned
\* with it.
ResolveFailedWithPartial(err) == [kind |-> "Err", fetches |-> rs_run.fetches, err |-> err]

\* Err(e): the `?` of lines 545-563 and 667-670 returns the error and drops
\* the fetches pushed so far.
ResolveFailed(err) == [kind |-> "Err", fetches |-> <<>>, err |-> err]

\* The state of a call: the futures not yet polled (`pending`), those polled
\* and not completed (`inflight`), the requests made of the repository and
\* its answers in the order they came, and the fetches pushed so far.
Run(pc, pending, inflight, requests, served, fetches, result) ==
    [pc |-> pc, pending |-> pending, inflight |-> inflight, requests |-> requests,
     served |-> served, fetches |-> fetches, result |-> result]

NoRun == Run("idle", <<>>, {}, <<>>, <<>>, <<>>, NotResolved)

\* The resolve variables of a specification that resolves nothing.
ResolveIdle ==
    /\ rs_repo = [by_hash |-> "absent", serves |-> {}]
    /\ rs_call = NoResolveCall
    /\ rs_run = NoRun

(***************************************************************************)
(* RepositoryRootReader: the release files and the pool artifacts.         *)
(***************************************************************************)
ReleasePaths == {"dists/stable/InRelease", "dists/stable/Release"}

\* What a release path holds: nothing, a Release paragraph in a PGP cleartext
\* signature, a bare Release paragraph, or bytes that are no control paragraph.
ReleaseForms == {"absent", "signed", "plain", "malformed"}

\* Errors of a stream while its bytes are read (NotFound is reported when the
\* path is opened, not later).
ReadErrorKinds == {"UnexpectedEof", "ConnectionReset"}

NoOutcome == [kind |-> "none", path |-> "", signed |-> FALSE, err |-> NoError]

\* Ok(ReleaseFile): the file parsed from `path`, with or without signatures.
OkRelease(path, signed) ==
    [kind |-> "Ok", path |-> path, signed |-> signed, err |-> NoError]

ErrOutcome(e) == [kind |-> "Err", path |-> "", signed |-> FALSE, err |-> e]

ParseError(variant) == [variant |-> variant, path |-> "", cause |-> "none"]

\* ReleaseFile::from_armored_reader
FromArmoredReader(path, form) ==
    CASE form = "signed" -> OkRelease(path, TRUE)
      [] form = "plain" -> ErrOutcome(ParseError("Pgp"))
      [] OTHER -> ErrOutcome(ParseError("ControlParseError"))

\* ReleaseFile::from_reader
FromReader(path, form) ==
    CASE form = "plain" -> OkRelease(path, FALSE)
      [] OTHER -> ErrOutcome(ParseError("ControlParseError"))

\* self.get_path(path).await? : the backend's error is returned as it is.
OpenError(path, kind) == ErrOutcome(RepositoryIoPath(path, kind))

\* reader.read_to_end(&mut data).await? : the io::Error becomes a DebianError
\* through From<std::io::Error>.
ReadError(path, kind) == ErrOutcome(IoError(kind))

\* fetch_inrelease / fetch_release: which parser reads the bytes.
ParseRelease(which, path, form) ==
    IF which = "fetch_inrelease" THEN FromArmoredReader(path, form)
    ELSE FromReader(path, form)

\* Mutant of FallsBack: every RepositoryIoPath error falls back.
FallsBackOnAnyIoPath(outcome) ==
    outcome.kind = "Err" /\ outcome.err.variant = "RepositoryIoPath"

\* Err(DebianError::RepositoryIoPath(_, e)) if e.kind() == ErrorKind::NotFound
FallsBack(outcome) ==
    /\ outcome.kind = "Err"
    /\ outcome.err.variant = "RepositoryIoPath"
    /\ outcome.err.cause = "NotFound"

\* BinaryPackageFetch / SourcePackageFetch: path, size, digest.
Fetch(path, size, digest) == [path |-> path, size |-> size, digest |-> digest]

Fetches ==
    {Fetch(p, n, HashOf(a, c)) :
        p \in Paths, n \in 0..MaxLen, a \in {"Sha256", "Md5"}, c \in Contents}

\* Mutant of FetchBinaryCall: the artifact is read unverified.
FetchBinaryCallPlain(fetch) == CallGetPath(fetch.path)

\* self.get_path_with_digest_verification(&fetch.path, fetch.size, fetch.digest)
FetchBinaryCall(fetch) ==
    CallGetPathWithDigestVerification(fetch.path, fetch.size, fetch.digest)

\* self.get_path_with_digest_verification(&fetch.path, fetch.size, fetch.digest.clone())
FetchSourceCall(fetch) ==
    CallGetPathWithDigestVerification(fetch.path, fetch.size, fetch.digest)

Op(name, p1, p2, fetch) == [name |-> name, p1 |-> p1, p2 |-> p2, fetch |-> fetch]

NoFetch == Fetch("", 0, NoDigest)

NoOp == Op("none", "", "", NoFetch)

\* The fetch_inrelease or fetch_release call in progress and what it returns.
Sub(which, path, out) == [which |-> which, path |-> path, out |-> out]

NoSub == Sub("none", "", NoOutcome)

CallFetch(which, path) == Entry("call", which, path, "", NoExpected, NoStream, "", NoWrite)

NoRead == [ok |-> FALSE, data |-> <<>>, cause |-> "none"]

\* The fetch variables between two operations.
FetchRest ==
    /\ rf_pc = "idle"
    /\ rf_op = NoOp
    /\ rf_trace = <<>>
    /\ rf_stream = NoStream
    /\ rf_sub = NoSub
    /\ rf_attempt = NoOutcome
    /\ rf_result = NoOutcome
    /\ rf_read = NoRead

\* The fetch variables of a specification that calls no fetch operation.
FetchIdle ==
    /\ FetchRest
    /\ rf_pool = [p \in Paths |-> Absent]
    /\ rf_dist = [p \in ReleasePaths |-> "absent"]

FetchInit ==
    /\ FetchRest
    /\ rf_pool \in [Paths -> Blobs]
    /\ rf_dist \in [ReleasePaths -> ReleaseForms]
    /\ CopyIdle
    /\ ReleaseIdle
    /\ ResolveIdle

(***************************************************************************)
(* RepositoryWriter::copy_from, one step per statement.                    *)
(***************************************************************************)
CopyArgs(source_path, expected_content, dest_path, has_cb) ==
    [source_path |-> source_path, expected_content |-> expected_content,
     dest_path |-> dest_path, has_cb |-> has_cb]

\* Mutant of VerifyingEvents: the event names the source path.
VerifyingEventsSourcePath(args) ==
    IF args.has_cb THEN <<Event("VerifyingDestinationPath", args.source_path, "")>>
    ELSE <<>>

\* if let Some(cb) = progress_cb { cb(VerifyingDestinationPath(dest_path)) }
VerifyingEvents(args) ==
    IF args.has_cb THEN <<Event("VerifyingDestinationPath", args.dest_path, "")>>
    ELSE <<>>

\* self.verify_path(dest_path.as_ref(), expected_content.clone())
VerifyCall(args) == CallVerifyPath(args.dest_path, args.expected_content)

\* Mutant of IsNoopState: any existing destination counts as up to date.
IsNoopStateUnchecked(state) ==
    state \in {"ExistsIntegrityVerified", "ExistsNoIntegrityCheck"}

\* matches!(verification.state, ExistsIntegrityVerified)
IsNoopState(state) == state = "ExistsIntegrityVerified"

\* Mutant of NoopResult: the size is always 0.
NoopResultZero(args) == Noop(args.dest_path, 0)

\* Noop(dest_path, if let Some((size, _)) = expected_content { size } else { 0 })
NoopResult(args) ==
    Noop(args.dest_path,
         IF args.expected_content.some THEN args.expected_content.size ELSE 0)

\* if let Some(cb) = progress_cb { cb(CopyingPath(source_path, dest_path)) }
CopyingEvents(args) ==
    IF args.has_cb THEN <<Event("CopyingPath", args.source_path, args.dest_path)>>
    ELSE <<>>

\* Mutant of SourceStreamCall: the source is always read unverified.
SourceStreamCallPlain(args) == CallGetPath(args.source_path)

\* The reader call that yields the source stream: digest-verified when
\* expected_content is given, plain otherwise.
SourceStreamCall(args) ==
    IF args.expected_content.some
    THEN CallGetPathWithDigestVerification(args.source_path,
             args.expected_content.size, args.expected_content.digest)
    ELSE CallGetPath(args.source_path)

\* self.write_path(dest_path, reader)
WriteCall(args, stream) == CallWritePath(args.dest_path, stream)

\* Mutant of CopyFromOk: the write is reported as a no-op.
CopyFromOkAsNoop(write) == Noop(write.path, write.bytes_written)

\* Ok(RepositoryWriteOperation::PathWritten(write))
CopyFromOk(write) == PathWritten(write)

\* Mutant of Propagate: the callee's error becomes a no-op.
PropagateAsNoop(e) == Noop("", 0)

\* Mutant of Propagate: the callee's error is dropped.
PropagateDropped(e) == PathWritten(NoWrite)

\* The `?` after an awaited call: the callee's error is copy_from's result.
Propagate(e) == Err(e)

\* The stream a reader call opens on the repository `reader`.
OpenStream(reader, call) ==
    IF call.name = "get_path_with_digest_verification"
    THEN VerifiedStream(call.p1, call.exp.size, call.exp.digest, reader[call.p1].data)
    ELSE PlainStream(call.p1, reader[call.p1].data)

CopyInit ==
    /\ cf_pc = "start"
    /\ cf_run = "first"
    /\ cf_first = NoResult
    /\ cf_trace = <<>>
    /\ cf_verification = "none"
    /\ cf_stream = NoStream
    /\ cf_result = NoResult
    /\ \E src \in Paths, dst \in Paths, exp \in ExpectedContents, cb \in BOOLEAN :
         cf_args = CopyArgs(src, exp, dst, cb)
    /\ \E b \in Blobs :
         cf_reader = [p \in Paths |-> IF p = cf_args.source_path THEN b ELSE Absent]
    /\ \/ \E kind \in {"checking", "nocheck"}, b \in Blobs :
            cf_writer = Writer(kind, "Missing",
                [p \in Paths |-> IF p = cf_args.dest_path THEN b ELSE Absent])
       \/ \E behavior \in RepositoryPathVerificationState :
            cf_writer = Writer("sink", behavior, [p \in Paths |-> Absent])
    /\ FetchIdle
    /\ ReleaseIdle
    /\ ResolveIdle

\* Lines 1031-1035.
CopyFromEmitVerifying ==
    /\ cf_pc = "start"
    /\ cf_trace' = cf_trace \o VerifyingEvents(cf_args)
    /\ cf_pc' = "verify"
    /\ UNCHANGED <<cf_args, cf_reader, cf_writer, cf_verification, cf_stream,
                   cf_result, cf_run, cf_first>>
    /\ UNCHANGED notCopyVars

\* Lines 1037-1039: verify_path answers with a state, or fails.
CopyFromVerifyPath ==
    /\ cf_pc = "verify"
    /\ LET call == VerifyCall(cf_args) IN
       \/ /\ cf_verification' = VerifyPathState(cf_writer, call.p1, call.exp)
          /\ cf_trace' = cf_trace \o <<call, RetVerifyPath(cf_verification')>>
          /\ cf_pc' = "branch"
          /\ UNCHANGED cf_result
       \/ \E kind \in TransportErrorKinds :
          /\ cf_trace' = cf_trace \o <<call>>
          /\ cf_result' = Propagate(RepositoryIoPath(call.p1, kind))
          /\ cf_pc' = "done"
          /\ UNCHANGED cf_verification
    /\ UNCHANGED <<cf_args, cf_reader, cf_writer, cf_stream, cf_run, cf_first>>
    /\ UNCHANGED notCopyVars

\* Lines 1041-1053.
CopyFromNoop ==
    /\ cf_pc = "branch"
    /\ IsNoopState(cf_verification)
    /\ cf_result' = NoopResult(cf_args)
    /\ cf_pc' = "done"
    /\ UNCHANGED <<cf_args, cf_reader, cf_writer, cf_trace, cf_verification,
                   cf_stream, cf_run, cf_first>>
    /\ UNCHANGED notCopyVars

\* Lines 1055-1060.
CopyFromEmitCopying ==
    /\ cf_pc = "branch"
    /\ ~IsNoopState(cf_verification)
    /\ cf_trace' = cf_trace \o CopyingEvents(cf_args)
    /\ cf_pc' = "get"
    /\ UNCHANGED <<cf_args, cf_reader, cf_writer, cf_verification, cf_stream,
                   cf_result, cf_run, cf_first>>
    /\ UNCHANGED notCopyVars

\* Lines 1062-1068: the reader opens the stream, or fails (NotFound when the
\* path is absent).
CopyFromGetStream ==
    /\ cf_pc = "get"
    /\ LET call == SourceStreamCall(cf_args) IN
       \/ /\ cf_reader[call.p1].present
          /\ cf_stream' = OpenStream(cf_reader, call)
          /\ cf_trace' = cf_trace \o <<call, RetStream(call.name, cf_stream')>>
          /\ cf_pc' = "write"
          /\ UNCHANGED cf_result
       \/ \E kind \in IF cf_reader[call.p1].present THEN TransportErrorKinds
                      ELSE {"NotFound"} :
          /\ cf_trace' = cf_trace \o <<call>>
          /\ cf_result' = Propagate(RepositoryIoPath(call.p1, kind))
          /\ cf_pc' = "done"
          /\ UNCHANGED cf_stream
    /\ UNCHANGED <<cf_args, cf_reader, cf_writer, cf_verification, cf_run, cf_first>>
    /\ UNCHANGED notCopyVars

\* Lines 1070-1072: write_path drains the stream into the destination.  When
\* the stream fails, the error is wrapped in one of the variants that carry
\* an io error and what the destination then holds is up to the backend.
CopyFromWritePath ==
    /\ cf_pc = "write"
    /\ LET call == WriteCall(cf_args, cf_stream)
           read == ReadToEnd(call.stream)
           write == RepositoryWrite(call.p1, Len(read.data)) IN
       \/ /\ read.ok
          /\ cf_writer' = [cf_writer EXCEPT
                 !.store = StoreAfterWrite(cf_writer, call.p1, read.data)]
          /\ cf_trace' = cf_trace \o <<call, RetWritePath(write)>>
          /\ cf_result' = CopyFromOk(write)
       \/ /\ ~read.ok
          /\ \E variant \in IoErrorVariants, kept \in BOOLEAN :
             /\ cf_writer' = IF kept THEN cf_writer
                   ELSE [cf_writer EXCEPT
                       !.store = StoreAfterWrite(cf_writer, call.p1, read.data)]
             /\ cf_result' = Propagate(IF variant = "Io" THEN IoError(read.cause)
                                       ELSE RepositoryIoPath(call.p1, read.cause))
          /\ cf_trace' = cf_trace \o <<call>>
       \/ \E kind \in TransportErrorKinds :
          /\ cf_writer' = cf_writer
          /\ cf_result' = Propagate(RepositoryIoPath(call.p1, kind))
          /\ cf_trace' = cf_trace \o <<call>>
    /\ cf_pc' = "done"
    /\ UNCHANGED <<cf_args, cf_reader, cf_verification, cf_stream, cf_run, cf_first>>
    /\ UNCHANGED notCopyVars

\* The caller runs copy_from a second time with the same inputs on the same
\* reader and writer.
CopyFromAgain ==
    /\ cf_pc = "done"
    /\ cf_run = "first"
    /\ cf_first' = cf_result
    /\ cf_run' = "second"
    /\ cf_pc' = "start"
    /\ cf_trace' = <<>>
    /\ cf_verification' = "none"
    /\ cf_stream' = NoStream
    /\ cf_result' = NoResult
    /\ UNCHANGED <<cf_args, cf_reader, cf_writer>>
    /\ UNCHANGED notCopyVars

CopyNext ==
    \/ CopyFromEmitVerifying
    \/ CopyFromVerifyPath
    \/ CopyFromNoop
    \/ CopyFromEmitCopying
    \/ CopyFromGetStream
    \/ CopyFromWritePath
    \/ CopyFromAgain

SpecCopy == CopyInit /\ [][CopyNext]_vars

(***************************************************************************)
(* Properties of copy_from (checked under SpecCopy).                       *)
(***************************************************************************)
CopyDone == cf_pc = "done"

BothRunsDone == cf_run = "second" /\ cf_pc = "done"

\* The stream obtained by this execution fails its terminal size/digest check.
SourceFailsCheck == cf_stream.open /\ ~ReadToEnd(cf_stream).ok

\* C1: whenever verify_path reports ExistsIntegrityVerified, copy_from makes no
\* reader call and no write_path call, delivers no event but
\* VerifyingDestinationPath(dest_path), and returns Noop(dest_path, size) with
\* size the expected size, 0 when expected_content is None.
C1_NoopFastPath ==
    cf_verification = "ExistsIntegrityVerified" =>
        /\ CallsOf(cf_trace, "get_path") = {}
        /\ CallsOf(cf_trace, "get_path_with_digest_verification") = {}
        /\ CallsOf(cf_trace, "write_path") = {}
        /\ EventsOf(cf_trace) =
             IF cf_args.has_cb
             THEN <<Event("VerifyingDestinationPath", cf_args.dest_path, "")>>
             ELSE <<>>
        /\ CopyDone =>
             /\ cf_result.kind = "Noop"
             /\ cf_result.path = cf_args.dest_path
             /\ cf_result.bytes = IF cf_args.expected_content.some
                                  THEN cf_args.expected_content.size ELSE 0

C1_Witness ==
    /\ CopyDone
    /\ cf_verification = "ExistsIntegrityVerified"
    /\ cf_result.kind = "Noop"
    /\ cf_result.bytes = 1
    /\ cf_args.has_cb
    /\ PerformsIntegrityChecks(cf_writer)

\* The steps of one execution in their causal order, as (kind, name) labels;
\* both reader calls are labelled "reader".
TraceLabel(e) ==
    <<e.k, IF e.name \in {"get_path", "get_path_with_digest_verification"}
           THEN "reader" ELSE e.name>>

CausalOrder(has_cb) ==
    (IF has_cb THEN <<<<"event", "VerifyingDestinationPath">>>> ELSE <<>>)
    \o <<<<"call", "verify_path">>, <<"ret", "verify_path">>>>
    \o (IF has_cb THEN <<<<"event", "CopyingPath">>>> ELSE <<>>)
    \o <<<<"call", "reader">>, <<"ret", "reader">>,
         <<"call", "write_path">>, <<"ret", "write_path">>>>

\* C2: at every point of an execution the events delivered and calls made so
\* far are a prefix of one sequence: VerifyingDestinationPath(dest), the call
\* of verify_path(dest, expected_content), its return, CopyingPath(source,
\* dest), the reader call, its return, the call of write_path, its return.
\* So each happens at most once, write_path never precedes verify_path's
\* return, and no other event is emitted.
C2_CausalOrder ==
    LET canon == CausalOrder(cf_args.has_cb) IN
    /\ Len(cf_trace) <= Len(canon)
    /\ \A i \in 1..Len(cf_trace) :
         /\ TraceLabel(cf_trace[i]) = canon[i]
         /\ cf_trace[i].name = "VerifyingDestinationPath" =>
              cf_trace[i].p1 = cf_args.dest_path
         /\ cf_trace[i].name = "CopyingPath" =>
              cf_trace[i].p1 = cf_args.source_path /\ cf_trace[i].p2 = cf_args.dest_path
         /\ (cf_trace[i].k = "call" /\ cf_trace[i].name = "verify_path") =>
              /\ cf_trace[i].p1 = cf_args.dest_path
              /\ cf_trace[i].exp = cf_args.expected_content

C2_Witness ==
    /\ CopyDone
    /\ cf_result.kind = "PathWritten"
    /\ cf_args.has_cb
    /\ cf_args.source_path # cf_args.dest_path
    /\ Len(cf_trace) = Len(CausalOrder(TRUE))

\* C3: when verify_path reports a state other than ExistsIntegrityVerified
\* and neither the reader nor the writer fails, CopyingPath(source_path,
\* dest_path) is delivered (to the callback, when there is one), write_path
\* is called exactly once, with dest_path and the stream the reader returned
\* for source_path, and the result is PathWritten carrying the RepositoryWrite
\* that write_path returned.
C3_CopyPath ==
    (/\ CopyDone
     /\ cf_verification \in RepositoryPathVerificationState \ {"ExistsIntegrityVerified"}
     /\ cf_result.kind # "Err") =>
        /\ cf_args.has_cb =>
             \E i \in 1..Len(cf_trace) :
                 cf_trace[i] = Event("CopyingPath", cf_args.source_path, cf_args.dest_path)
        /\ Cardinality(CallsOf(cf_trace, "write_path")) = 1
        /\ \A i \in CallsOf(cf_trace, "write_path") :
             /\ cf_trace[i].p1 = cf_args.dest_path
             /\ i > 2
             /\ cf_trace[i - 1].k = "ret"
             /\ cf_trace[i - 1].stream = cf_trace[i].stream
             /\ cf_trace[i - 2].k = "call"
             /\ cf_trace[i - 2].name = cf_trace[i - 1].name
             /\ cf_trace[i - 2].p1 = cf_args.source_path
             /\ cf_trace[i].stream.path = cf_args.source_path
             /\ cf_trace[i].stream.data = cf_reader[cf_args.source_path].data
        /\ cf_trace[Len(cf_trace)].k = "ret"
        /\ cf_trace[Len(cf_trace)].name = "write_path"
        /\ cf_result.kind = "PathWritten"
        /\ cf_result.path = cf_trace[Len(cf_trace)].write.path
        /\ cf_result.bytes = cf_trace[Len(cf_trace)].write.bytes_written

C3_Witness ==
    /\ CopyDone
    /\ cf_verification = "ExistsIntegrityMismatch"
    /\ cf_result.kind = "PathWritten"
    /\ cf_result.bytes = 1
    /\ cf_args.has_cb
    /\ cf_args.source_path # cf_args.dest_path

\* C4: with expected_content = Some((size, digest)) the stream handed to
\* write_path is the one get_path_with_digest_verification(source_path, size,
\* digest) returned, with that size and digest; get_path is called only when
\* expected_content is None.
C4_VerifiedSource ==
    /\ CallsOf(cf_trace, "get_path") # {} => ~cf_args.expected_content.some
    /\ cf_args.expected_content.some =>
         /\ \A i \in CallsOf(cf_trace, "get_path_with_digest_verification") :
              /\ cf_trace[i].p1 = cf_args.source_path
              /\ cf_trace[i].exp = cf_args.expected_content
         /\ \A i \in CallsOf(cf_trace, "write_path") :
              /\ cf_trace[i].stream.fn = "get_path_with_digest_verification"
              /\ cf_trace[i].stream.path = cf_args.source_path
              /\ cf_trace[i].stream.size = cf_args.expected_content.size
              /\ cf_trace[i].stream.digest = cf_args.expected_content.digest
              /\ CallsOf(cf_trace, "get_path_with_digest_verification") = {i - 2}

C4_Witness ==
    /\ CopyDone
    /\ cf_args.expected_content.some
    /\ cf_args.expected_content.size = 1
    /\ CallsOf(cf_trace, "write_path") # {}
    /\ cf_result.kind = "PathWritten"

\* C5 as stated: two executions with the same inputs yield PathWritten then
\* Noop if and only if the writer performs integrity checks in verify_path.
C5_Original ==
    BothRunsDone =>
        ((cf_first.kind = "PathWritten" /\ cf_result.kind = "Noop")
            <=> PerformsIntegrityChecks(cf_writer))

\* C5 amended: PathWritten then Noop happens only with a writer that performs
\* integrity checks and only when expected_content is given; and with such a
\* writer and expected_content given, a first execution that returns
\* PathWritten is followed by a second one that returns Noop unless it fails.
C5_Idempotent ==
    BothRunsDone =>
        /\ (cf_first.kind = "PathWritten" /\ cf_result.kind = "Noop") =>
             PerformsIntegrityChecks(cf_writer) /\ cf_args.expected_content.some
        /\ (/\ PerformsIntegrityChecks(cf_writer)
            /\ cf_args.expected_content.some
            /\ cf_first.kind = "PathWritten"
            /\ cf_result.kind # "Err") => cf_result.kind = "Noop"

C5_Witness ==
    /\ BothRunsDone
    /\ cf_first.kind = "PathWritten"
    /\ cf_result.kind = "Noop"
    /\ cf_result.bytes = 1

CallFailed(name) ==
    /\ cf_trace # <<>>
    /\ cf_trace[Len(cf_trace)].k = "call"
    /\ cf_trace[Len(cf_trace)].name = name

\* The names of the two reader calls that yield the source stream.
StreamCalls == {"get_path", "get_path_with_digest_verification"}

\* copy_from returned an error that wraps an io error and, when it names a
\* path, names `path`.
ReturnedErrorOf(path) ==
    /\ cf_result.kind = "Err"
    /\ cf_result.err.cause # "none"
    /\ cf_result.err.variant = "RepositoryIoPath" => cf_result.err.path = path

\* C29: when verify_path fails, copy_from returns its error, delivers no
\* CopyingPath event and calls neither the reader nor write_path; when the
\* reader fails to give the source stream, copy_from returns its error and
\* does not call write_path; when write_path fails, copy_from returns its
\* error, not PathWritten.
C29_ErrorsStopTheProtocol ==
    CopyDone =>
        /\ CallFailed("verify_path") =>
               /\ ReturnedErrorOf(cf_args.dest_path)
               /\ \A i \in DOMAIN cf_trace :
                      cf_trace[i].name \notin {"CopyingPath", "write_path"} \cup StreamCalls
        /\ (\E name \in StreamCalls : CallFailed(name)) =>
               /\ ReturnedErrorOf(cf_args.source_path)
               /\ \A i \in DOMAIN cf_trace : cf_trace[i].name # "write_path"
        /\ CallFailed("write_path") =>
               /\ ReturnedErrorOf(cf_args.dest_path)
               /\ cf_result.kind # "PathWritten"

\* verify_path failed under a callback: copy_from is over with its error.
C29_Witness ==
    /\ CopyDone
    /\ cf_args.has_cb
    /\ CallFailed("verify_path")
    /\ cf_result.kind = "Err"
    /\ cf_result.err.path = cf_args.dest_path

\* write_path failed on a source stream that was obtained.
C29_WitnessWrite ==
    /\ CopyDone
    /\ CallFailed("write_path")
    /\ cf_stream.open
    /\ cf_result.kind = "Err"

\* C30: copy_from returns Noop only for a call in which expected_content was
\* supplied; with expected_content = None the call ends in PathWritten or an
\* error.
C30_NoopOnlyWithExpected ==
    CopyDone =>
        /\ cf_result.kind = "Noop" => cf_args.expected_content.some
        /\ ~cf_args.expected_content.some => cf_result.kind \in {"PathWritten", "Err"}

(***************************************************************************)
(* RepositoryRootReader operations.                                        *)
(***************************************************************************)
\* fetch_inrelease_or_release(inrelease_path, release_path) is called: it
\* starts with fetch_inrelease(inrelease_path).
CallFetchInReleaseOrRelease(inrelease_path, release_path) ==
    /\ rf_pc = "idle"
    /\ rf_op' = Op("fetch_inrelease_or_release", inrelease_path, release_path, NoFetch)
    /\ rf_sub' = Sub("fetch_inrelease", inrelease_path, NoOutcome)
    /\ rf_trace' = <<CallFetch("fetch_inrelease", inrelease_path)>>
    /\ rf_pc' = "open"
    /\ UNCHANGED <<rf_pool, rf_dist, rf_stream, rf_attempt, rf_result, rf_read>>
    /\ UNCHANGED notFetchVars

\* fetch_inrelease(path) or fetch_release(path) is called by the user.
CallFetchRelease(which, path) ==
    /\ rf_pc = "idle"
    /\ rf_op' = Op(which, path, "", NoFetch)
    /\ rf_sub' = Sub(which, path, NoOutcome)
    /\ rf_pc' = "open"
    /\ UNCHANGED <<rf_pool, rf_dist, rf_trace, rf_stream, rf_attempt, rf_result, rf_read>>
    /\ UNCHANGED notFetchVars

\* let mut reader = self.get_path(path).await?;
FetchOpen ==
    /\ rf_pc = "open"
    /\ rf_trace' = Append(rf_trace, CallGetPath(rf_sub.path))
    /\ \/ /\ rf_dist[rf_sub.path] # "absent"
          /\ rf_pc' = "read"
          /\ UNCHANGED rf_sub
       \/ \E kind \in IF rf_dist[rf_sub.path] = "absent" THEN {"NotFound"}
                      ELSE TransportErrorKinds :
          /\ rf_sub' = [rf_sub EXCEPT !.out = OpenError(rf_sub.path, kind)]
          /\ rf_pc' = "return"
    /\ UNCHANGED <<rf_op, rf_pool, rf_dist, rf_stream, rf_attempt, rf_result, rf_read>>
    /\ UNCHANGED notFetchVars

\* reader.read_to_end(&mut data).await?;
FetchRead ==
    /\ rf_pc = "read"
    /\ \/ /\ rf_pc' = "parse"
          /\ UNCHANGED rf_sub
       \/ \E kind \in ReadErrorKinds :
          /\ rf_sub' = [rf_sub EXCEPT !.out = ReadError(rf_sub.path, kind)]
          /\ rf_pc' = "return"
    /\ UNCHANGED <<rf_op, rf_pool, rf_dist, rf_trace, rf_stream, rf_attempt,
                   rf_result, rf_read>>
    /\ UNCHANGED notFetchVars

\* Ok(ReleaseFile::from_armored_reader(..)?) or Ok(ReleaseFile::from_reader(..)?)
FetchParse ==
    /\ rf_pc = "parse"
    /\ rf_sub' = [rf_sub EXCEPT
           !.out = ParseRelease(rf_sub.which, rf_sub.path, rf_dist[rf_sub.path])]
    /\ rf_pc' = "return"
    /\ UNCHANGED <<rf_op, rf_pool, rf_dist, rf_trace, rf_stream, rf_attempt,
                   rf_result, rf_read>>
    /\ UNCHANGED notFetchVars

\* A fetch_inrelease or fetch_release the user called returns.
FetchReleaseReturn ==
    /\ rf_pc = "return"
    /\ rf_op.name \in {"fetch_inrelease", "fetch_release"}
    /\ rf_result' = rf_sub.out
    /\ rf_pc' = "done"
    /\ UNCHANGED <<rf_op, rf_pool, rf_dist, rf_trace, rf_stream, rf_sub, rf_attempt,
                   rf_read>>
    /\ UNCHANGED notFetchVars

\* match self.fetch_inrelease(inrelease_path).await { .. }
OrReleaseMatch ==
    /\ rf_pc = "return"
    /\ rf_op.name = "fetch_inrelease_or_release"
    /\ rf_sub.which = "fetch_inrelease"
    /\ rf_attempt' = rf_sub.out
    /\ IF FallsBack(rf_sub.out)
       THEN /\ rf_sub' = Sub("fetch_release", rf_op.p2, NoOutcome)
            /\ rf_trace' = Append(rf_trace, CallFetch("fetch_release", rf_op.p2))
            /\ rf_pc' = "open"
            /\ UNCHANGED rf_result
       ELSE /\ rf_result' = rf_sub.out
            /\ rf_pc' = "done"
            /\ UNCHANGED <<rf_sub, rf_trace>>
    /\ UNCHANGED <<rf_op, rf_pool, rf_dist, rf_stream, rf_read>>
    /\ UNCHANGED notFetchVars

\* self.fetch_release(release_path).await is the value of the match.
OrReleaseReturn ==
    /\ rf_pc = "return"
    /\ rf_op.name = "fetch_inrelease_or_release"
    /\ rf_sub.which = "fetch_release"
    /\ rf_result' = rf_sub.out
    /\ rf_pc' = "done"
    /\ UNCHANGED <<rf_op, rf_pool, rf_dist, rf_trace, rf_stream, rf_sub, rf_attempt,
                   rf_read>>
    /\ UNCHANGED notFetchVars

\* The one call of a *_package_generic operation: the backend opens the
\* verified stream, or fails (NotFound when the path is absent).
GenericFetch(name, fetch, call) ==
    /\ rf_op' = Op(name, "", "", fetch)
    /\ rf_trace' = <<call>>
    /\ \/ /\ rf_pool[call.p1].present
          /\ rf_stream' = OpenStream(rf_pool, call)
          /\ rf_result' = OkRelease(call.p1, FALSE)
       \/ \E kind \in IF rf_pool[call.p1].present THEN TransportErrorKinds
                      ELSE {"NotFound"} :
          /\ rf_result' = ErrOutcome(RepositoryIoPath(call.p1, kind))
          /\ UNCHANGED rf_stream
    /\ rf_pc' = "done"
    /\ UNCHANGED <<rf_pool, rf_dist, rf_sub, rf_attempt, rf_read>>
    /\ UNCHANGED notFetchVars

FetchBinaryPackageGeneric(fetch) ==
    /\ rf_pc = "idle"
    /\ GenericFetch("fetch_binary_package_generic", fetch, FetchBinaryCall(fetch))

FetchSourcePackageGeneric(fetch) ==
    /\ rf_pc = "idle"
    /\ GenericFetch("fetch_source_package_generic", fetch, FetchSourceCall(fetch))

\* The caller reads the stream it was given to its end.
DrainStream ==
    /\ rf_pc = "done"
    /\ rf_stream.open
    /\ rf_read' = ReadToEnd(rf_stream)
    /\ rf_pc' = "drained"
    /\ UNCHANGED <<rf_op, rf_pool, rf_dist, rf_trace, rf_stream, rf_sub, rf_attempt,
                   rf_result>>
    /\ UNCHANGED notFetchVars

\* The caller is done with the operation's result.
FetchFinish ==
    /\ rf_pc \in {"done", "drained"}
    /\ rf_pc' = "idle"
    /\ rf_op' = NoOp
    /\ rf_trace' = <<>>
    /\ rf_stream' = NoStream
    /\ rf_sub' = NoSub
    /\ rf_attempt' = NoOutcome
    /\ rf_result' = NoOutcome
    /\ rf_read' = NoRead
    /\ UNCHANGED <<rf_pool, rf_dist>>
    /\ UNCHANGED notFetchVars

FetchNext ==
    \/ \E inp \in ReleasePaths, relp \in ReleasePaths :
           CallFetchInReleaseOrRelease(inp, relp)
    \/ \E which \in {"fetch_inrelease", "fetch_release"}, path \in ReleasePaths :
           CallFetchRelease(which, path)
    \/ FetchOpen
    \/ FetchRead
    \/ FetchParse
    \/ FetchReleaseReturn
    \/ OrReleaseMatch
    \/ OrReleaseReturn
    \/ \E fetch \in Fetches : FetchBinaryPackageGeneric(fetch)
    \/ \E fetch \in Fetches : FetchSourcePackageGeneric(fetch)
    \/ DrainStream
    \/ FetchFinish

SpecFetch == FetchInit /\ [][FetchNext]_vars

(***************************************************************************)
(* Properties of the root reader (checked under SpecFetch).                *)
(***************************************************************************)
InGenericFetch ==
    rf_op.name \in {"fetch_binary_package_generic", "fetch_source_package_generic"}

\* The bytes the backend holds are the ones the descriptor expects.
FetchMatches(fetch, B) ==
    Len(B) = fetch.size /\ HashOf(fetch.digest.algo, B) = fetch.digest

\* C7: fetch_binary_package_generic and fetch_source_package_generic make one
\* call, get_path_with_digest_verification(path, size, digest) with the
\* descriptor's own values; reading the returned stream to its end yields the
\* backend's bytes with success when their length and hash are the expected
\* ones, and fails at end-of-stream with IntegrityMismatch when they differ.
C7_VerifiedFetch ==
    InGenericFetch =>
        LET fetch == rf_op.fetch
            B == rf_pool[fetch.path].data IN
        /\ rf_trace = <<CallGetPathWithDigestVerification(
                            fetch.path, fetch.size, fetch.digest)>>
        /\ rf_stream.open <=> rf_result.kind = "Ok"
        /\ rf_stream.open =>
             /\ rf_stream.fn = "get_path_with_digest_verification"
             /\ rf_stream.path = fetch.path
             /\ rf_stream.size = fetch.size
             /\ rf_stream.digest = fetch.digest
             /\ rf_stream.data = B
        /\ rf_pc = "drained" =>
             IF FetchMatches(fetch, B)
             THEN rf_read.ok /\ rf_read.data = B
             ELSE ~rf_read.ok /\ rf_read.cause = "IntegrityMismatch"

C7_Witness ==
    /\ rf_op.name = "fetch_binary_package_generic"
    /\ rf_pc = "drained"
    /\ Len(rf_pool[rf_op.fetch.path].data) = rf_op.fetch.size
    /\ rf_op.fetch.size = 1
    /\ ~rf_read.ok
    /\ rf_read.cause = "IntegrityMismatch"

FetchReleaseCalls == CallsOf(rf_trace, "fetch_release")

\* C8: fetch_inrelease_or_release first calls fetch_inrelease(inrelease_path);
\* it calls fetch_release(release_path), once, if and only if that attempt
\* failed with RepositoryIoPath of kind NotFound.  When InRelease succeeds its
\* result is returned and Release is not read; every other InRelease failure
\* is returned as it is without reading Release.
C8_InReleaseOrRelease ==
    rf_op.name = "fetch_inrelease_or_release" =>
        /\ rf_trace[1] = CallFetch("fetch_inrelease", rf_op.p1)
        /\ CallsOf(rf_trace, "fetch_inrelease") = {1}
        /\ Cardinality(FetchReleaseCalls) <= 1
        /\ \A i \in FetchReleaseCalls :
             rf_trace[i] = CallFetch("fetch_release", rf_op.p2)
        /\ FetchReleaseCalls # {} <=>
             (rf_attempt.kind = "Err" /\ rf_attempt.err.cause = "NotFound")
        /\ rf_attempt.kind = "Err" /\ rf_attempt.err.cause = "NotFound" =>
             rf_attempt.err = RepositoryIoPath(rf_op.p1, "NotFound")
        /\ FetchReleaseCalls = {} =>
             /\ Cardinality(CallsOf(rf_trace, "get_path")) <= 1
             /\ \A i \in CallsOf(rf_trace, "get_path") : rf_trace[i].p1 = rf_op.p1
        /\ rf_pc = "done" =>
             /\ rf_attempt.kind # "none"
             /\ FetchReleaseCalls = {} => rf_result = rf_attempt
             /\ rf_attempt.kind = "Ok" =>
                  rf_result = OkRelease(rf_op.p1, TRUE) /\ FetchReleaseCalls = {}
             /\ FetchReleaseCalls # {} =>
                  /\ rf_result.kind = "Ok" => rf_result = OkRelease(rf_op.p2, FALSE)
                  /\ Cardinality(CallsOf(rf_trace, "get_path")) = 2

C8_Witness ==
    /\ rf_op.name = "fetch_inrelease_or_release"
    /\ rf_pc = "done"
    /\ rf_attempt.kind = "Err"
    /\ rf_attempt.err.cause = "NotFound"
    /\ FetchReleaseCalls # {}
    /\ rf_result = OkRelease(rf_op.p2, FALSE)

\* C24: a failure of fetch_inrelease(path) or fetch_release(path), at the
\* opening of the blob or while its bytes are read, is returned as
\* RepositoryIoPath(path, cause) naming that path.
C24_ErrorsCarryPath ==
    (/\ rf_sub.which \in {"fetch_inrelease", "fetch_release"}
     /\ rf_sub.out.kind = "Err"
     /\ rf_sub.out.err.cause # "none") =>
        /\ rf_sub.out.err.variant = "RepositoryIoPath"
        /\ rf_sub.out.err.path = rf_sub.path

(***************************************************************************)
(* ReleaseReader operations.  None of them awaits: each is one step.       *)
(***************************************************************************)
\* Mutant of RetrieveChecksum: the weakest advertised checksum.
RetrieveChecksumWeakest(release) ==
    LET found == {i \in DOMAIN ChecksumOrder :
                      HasField(release, FieldName(ChecksumOrder[i]))}
    IN  IF found = {}
        THEN ErrAnswer("RepositoryReadReleaseNoKnownChecksum")
        ELSE OkChecksum(ChecksumOrder[CHOOSE i \in found : \A j \in found : j <= i])

\* Mutant of RetrieveChecksum: a reader on which a resolve operation failed
\* no longer finds a checksum.
RetrieveChecksumForgetful(release) ==
    LET found == {i \in DOMAIN ChecksumOrder :
                      HasField(release, FieldName(ChecksumOrder[i]))}
    IN  IF found = {} \/ rs_run.result.kind = "Err"
        THEN ErrAnswer("RepositoryReadReleaseNoKnownChecksum")
        ELSE OkChecksum(ChecksumOrder[CHOOSE i \in found : \A j \in found : i <= j])

\* Lines 279-288: find() over [Sha256, Sha1, Md5] returns the first variant
\* whose field the Release file has.
RetrieveChecksum(release) ==
    LET found == {i \in DOMAIN ChecksumOrder :
                      HasField(release, FieldName(ChecksumOrder[i]))}
    IN  IF found = {}
        THEN ErrAnswer("RepositoryReadReleaseNoKnownChecksum")
        ELSE OkChecksum(ChecksumOrder[CHOOSE i \in found : \A j \in found : i <= j])

\* Lines 301-306: every classified entry of the table of retrieve_checksum()?,
\* ReleaseNoIndicesFiles when the iterator is None.
ClassifiedIndicesEntries(release) ==
    LET checksum == RetrieveChecksum(release)
    IN  IF checksum.kind = "Err"
        THEN checksum
        ELSE IF ~HasField(release, FieldName(checksum.checksum))
        THEN ErrAnswer("ReleaseNoIndicesFiles")
        ELSE OkEntries([i \in DOMAIN release.entries |->
                 [release.entries[i] EXCEPT !.checksum = checksum.checksum]])

\* Mutant of IndicesEntries: without a checksum there are no entries.
IndicesEntriesEmptyWithoutChecksum(release, kind) ==
    LET checksum == RetrieveChecksum(release)
    IN  IF checksum.kind = "Err"
        THEN OkEntries(<<>>)
        ELSE LET it == IterIndices(release, kind, checksum.checksum)
             IN  IF it.some THEN OkEntries(it.entries) ELSE OkEntries(<<>>)

\* Lines 315-326 and 395-406: the entries of `kind` in the table of
\* retrieve_checksum()?, an empty Vec when the iterator is None.
IndicesEntries(release, kind) ==
    LET checksum == RetrieveChecksum(release)
    IN  IF checksum.kind = "Err"
        THEN checksum
        ELSE LET it == IterIndices(release, kind, checksum.checksum)
             IN  IF it.some THEN OkEntries(it.entries) ELSE OkEntries(<<>>)

\* Lines 337-341: the key of a Packages entry.
PackagesKey(entry) == <<entry.component, entry.architecture, entry.is_installer>>

\* Line 417: the key of a Sources entry.
SourcesKey(entry) == <<entry.component>>

KeyOf(kind, entry) ==
    IF kind = "Packages" THEN PackagesKey(entry) ELSE SourcesKey(entry)

\* The keys of the HashMap built at lines 333-344 and 413-420.
GroupKeys(kind, entries) == {KeyOf(kind, entries[i]) : i \in DOMAIN entries}

\* The Vec the HashMap holds for a key: the entries of that key, as pushed.
Candidates(kind, entries, key) ==
    LET InGroup(e) == KeyOf(kind, e) = key
    IN  SelectSeq(entries, InGroup)

\* candidates.iter().find(|entry| entry.compression == compression)
FindCompression(candidates, compression) ==
    LET at == {i \in DOMAIN candidates : candidates[i].compression = compression}
    IN  IF at = {}
        THEN [some |-> FALSE, entry |-> IndexEntry("", "", "", FALSE, "", "")]
        ELSE [some |-> TRUE,
              entry |-> candidates[CHOOSE i \in at : \A j \in at : i <= j]]

\* Mutant of DefaultOrderWinner: the last compression of the default order
\* that some candidate has.
DefaultOrderWinnerLast(candidates, notfound) ==
    LET hits == {j \in DOMAIN DefaultPreferredOrder :
                     FindCompression(candidates, DefaultPreferredOrder[j]).some}
    IN  IF hits = {}
        THEN ErrAnswer(notfound)
        ELSE OkEntry(FindCompression(candidates,
                 DefaultPreferredOrder[CHOOSE j \in hits : \A k \in hits : k <= j]).entry)

\* Lines 355-364 and 431-440: the first compression of the default order
\* that some candidate has.
DefaultOrderWinner(candidates, notfound) ==
    LET hits == {j \in DOMAIN DefaultPreferredOrder :
                     FindCompression(candidates, DefaultPreferredOrder[j]).some}
    IN  IF hits = {}
        THEN ErrAnswer(notfound)
        ELSE OkEntry(FindCompression(candidates,
                 DefaultPreferredOrder[CHOOSE j \in hits : \A k \in hits : j <= k]).entry)

\* Mutant of GroupWinner: the preferred compression is not consulted.
GroupWinnerDefaultOnly(candidates, preferred, notfound) ==
    DefaultOrderWinner(candidates, notfound)

\* Lines 348-366 and 424-442: the closure mapped over the groups.
GroupWinner(candidates, preferred, notfound) ==
    IF FindCompression(candidates, preferred).some
    THEN OkEntry(FindCompression(candidates, preferred).entry)
    ELSE DefaultOrderWinner(candidates, notfound)

\* Mutant of ValueOrders: a group may be yielded twice and another not at all.
ValueOrdersRepeating(keys) == [1..Cardinality(keys) -> keys]

\* HashMap::into_values yields the groups in an order the map chooses.
ValueOrders(keys) ==
    {order \in [1..Cardinality(keys) -> keys] :
        \A i, j \in 1..Cardinality(keys) : order[i] = order[j] => i = j}

\* collect::<Result<Vec<_>>>(): the winners in the order of the groups, or
\* the first error.
CollectWinners(winners) ==
    LET failed == {i \in DOMAIN winners : winners[i].kind = "Err"}
    IN  IF failed = {}
        THEN OkEntries([i \in DOMAIN winners |-> winners[i].entries[1]])
        ELSE winners[CHOOSE i \in failed : \A j \in failed : i <= j]

\* Mutant of PreferredCompressionCollapse: every entry of the table is kept.
CollapseKeepingEveryEntry(kind, release, preferred, notfound, order) ==
    IndicesEntries(release, kind)

\* Lines 332-368 and 412-444 for one order of the groups.
PreferredCompressionCollapse(kind, release, preferred, notfound, order) ==
    LET listed == IndicesEntries(release, kind)
    IN  IF listed.kind = "Err"
        THEN listed
        ELSE CollectWinners(
                 [i \in DOMAIN order |->
                     GroupWinner(Candidates(kind, listed.entries, order[i]),
                                 preferred, notfound)])

\* The orders into_values can take for the entries of `kind`.
CollapseOrders(kind, release) ==
    LET listed == IndicesEntries(release, kind)
    IN  IF listed.kind = "Err"
        THEN {<<>>}
        ELSE ValueOrders(GroupKeys(kind, listed.entries))

\* The error the failure arm of each collapse names (lines 364 and 440).
CollapseNotFound(kind) ==
    IF kind = "Packages"
    THEN "RepositoryReadPackagesIndicesEntryNotFound"
    ELSE "RepositoryReadPackagesIndicesEntryNotFound"

ReleaseInit ==
    /\ rr_release \in ReleaseFiles
    /\ rr_preferred \in Compressions
    /\ rr_op = NoQuery
    /\ rr_result = NoAnswer
    /\ CopyIdle
    /\ FetchIdle
    /\ ResolveIdle

\* Line 298.
SetPreferredCompression(compression) ==
    /\ rr_preferred' = compression
    /\ rr_op' = Query("set_preferred_compression", compression)
    /\ rr_result' = NoAnswer
    /\ UNCHANGED rr_release
    /\ UNCHANGED notReleaseVars

\* Lines 279-288.
CallRetrieveChecksum ==
    /\ rr_op' = Query("retrieve_checksum", "")
    /\ rr_result' = RetrieveChecksum(rr_release)
    /\ UNCHANGED <<rr_release, rr_preferred>>
    /\ UNCHANGED notReleaseVars

\* Lines 332-368.
PackagesIndicesEntriesPreferredCompression ==
    /\ rr_op' = Query("packages_indices_entries_preferred_compression", "")
    /\ \E order \in CollapseOrders("Packages", rr_release) :
         rr_result' = PreferredCompressionCollapse("Packages", rr_release,
                          rr_preferred, CollapseNotFound("Packages"), order)
    /\ UNCHANGED <<rr_release, rr_preferred>>
    /\ UNCHANGED notReleaseVars

\* Lines 412-444.
SourcesIndicesEntriesPreferredCompression ==
    /\ rr_op' = Query("sources_indices_entries_preferred_compression", "")
    /\ \E order \in CollapseOrders("Sources", rr_release) :
         rr_result' = PreferredCompressionCollapse("Sources", rr_release,
                          rr_preferred, CollapseNotFound("Sources"), order)
    /\ UNCHANGED <<rr_release, rr_preferred>>
    /\ UNCHANGED notReleaseVars

ReleaseNext ==
    \/ \E compression \in Compressions : SetPreferredCompression(compression)
    \/ CallRetrieveChecksum
    \/ PackagesIndicesEntriesPreferredCompression
    \/ SourcesIndicesEntriesPreferredCompression

SpecRelease == ReleaseInit /\ [][ReleaseNext]_vars

(***************************************************************************)
(* Properties of the release reader (checked under SpecRelease).           *)
(***************************************************************************)
\* C9: retrieve_checksum returns the first of SHA256, SHA1, MD5 whose table
\* the Release file has: SHA256 whenever the SHA256 table is there, whatever
\* the other tables; SHA1 when SHA256 is missing and SHA1 is there; MD5 when
\* only MD5Sum is there; and it fails, with
\* RepositoryReadReleaseNoKnownChecksum, exactly when none of the three is.
C9_RetrieveChecksum ==
    rr_op.name = "retrieve_checksum" =>
        LET Has(field) == field \in rr_release.fields
        IN  /\ Has("SHA256") => rr_result = OkChecksum("Sha256")
            /\ (~Has("SHA256") /\ Has("SHA1")) => rr_result = OkChecksum("Sha1")
            /\ (~Has("SHA256") /\ ~Has("SHA1") /\ Has("MD5Sum")) =>
                   rr_result = OkChecksum("Md5")
            /\ (rr_result.kind = "Err") <=>
                   (~Has("SHA256") /\ ~Has("SHA1") /\ ~Has("MD5Sum"))
            /\ rr_result.kind = "Err" =>
                   rr_result.err.variant = "RepositoryReadReleaseNoKnownChecksum"

\* retrieve_checksum passed over a missing SHA256 table and returned SHA1
\* although MD5Sum is there too.
C9_Witness ==
    /\ rr_op.name = "retrieve_checksum"
    /\ rr_release.fields = {"SHA1", "MD5Sum"}
    /\ rr_result = OkChecksum("Sha1")

\* The kind of index a collapse operation works on ("" for other operations).
CollapsedKind ==
    CASE rr_op.name = "packages_indices_entries_preferred_compression" -> "Packages"
      [] rr_op.name = "sources_indices_entries_preferred_compression" -> "Sources"
      [] OTHER -> ""

\* The returned entries of the group of line `e`.
WinnersOf(e) ==
    {i \in DOMAIN rr_result.entries :
        KeyOf(e.kind, rr_result.entries[i]) = KeyOf(e.kind, e)}

\* Every line in the preferred compression is what the collapse returned for
\* its group, and the only thing it returned for it.
PreferredEntriesWin ==
    \A n \in DOMAIN rr_release.entries :
        LET e == rr_release.entries[n]
        IN  (e.kind = CollapsedKind /\ e.compression = rr_preferred) =>
                /\ rr_result.kind = "Entries"
                /\ Cardinality(WinnersOf(e)) = 1
                /\ \A i \in WinnersOf(e) :
                       [rr_result.entries[i] EXCEPT !.checksum = ""] = e

\* set_preferred_compression(C) leaves C as the preferred compression.
PreferredIsWhatWasSet ==
    rr_op.name = "set_preferred_compression" => rr_preferred = rr_op.arg

\* Nothing but set_preferred_compression changes the preferred compression.
OnlySetChangesPreferred ==
    rr_preferred' # rr_preferred =>
        rr_op' = Query("set_preferred_compression", rr_preferred')

\* C10: whatever the index entries and the preferred compression C, each
\* group holding an entry in C has that entry as its winner in the result of
\* the Packages and of the Sources collapse, wherever C stands in the default
\* order and whatever else the group holds; C is what was last passed to
\* set_preferred_compression.
C10_PreferredWins ==
    /\ [](PreferredEntriesWin /\ PreferredIsWhatWasSet)
    /\ [][OnlySetChangesPreferred]_vars

\* The Packages collapse returned the Zstd entry of a group that also holds
\* an Xz entry, Zstd being preferred and last in the default order.
C10_Witness ==
    /\ rr_op.name = "packages_indices_entries_preferred_compression"
    /\ rr_preferred = "Zstd"
    /\ \E m, n \in DOMAIN rr_release.entries :
         /\ rr_release.entries[m].kind = "Packages"
         /\ rr_release.entries[n].kind = "Packages"
         /\ PackagesKey(rr_release.entries[m]) = PackagesKey(rr_release.entries[n])
         /\ rr_release.entries[m].compression = "Xz"
         /\ rr_release.entries[n].compression = "Zstd"
    /\ rr_result.kind = "Entries"
    /\ Len(rr_result.entries) = 1
    /\ rr_result.entries[1].compression = "Zstd"

\* The lines of the Release file in the group of line `e`.
GroupOf(e) ==
    {n \in DOMAIN rr_release.entries :
        /\ rr_release.entries[n].kind = e.kind
        /\ KeyOf(e.kind, rr_release.entries[n]) = KeyOf(e.kind, e)}

\* The place of a compression in Compression::default_preferred_order().
OrderPlace(compression) ==
    CHOOSE j \in DOMAIN DefaultPreferredOrder : DefaultPreferredOrder[j] = compression

\* C11: in the Packages and in the Sources collapse, a group without an entry
\* in the preferred compression has as its winner the entry of the group
\* whose compression comes first in Compression::default_preferred_order()
\* among the compressions the group holds.
C11_DefaultOrderFallback ==
    \A n \in DOMAIN rr_release.entries :
        LET e == rr_release.entries[n]
            held == {rr_release.entries[m].compression : m \in GroupOf(e)}
        IN  (e.kind = CollapsedKind /\ rr_preferred \notin held) =>
                /\ rr_result.kind = "Entries"
                /\ WinnersOf(e) # {}
                /\ \A i \in WinnersOf(e) :
                       /\ rr_result.entries[i].compression \in held
                       /\ \A c \in held :
                              OrderPlace(rr_result.entries[i].compression)
                                  <= OrderPlace(c)

\* With Xz preferred, the Packages collapse returned the Gzip entry of a
\* group that publishes Gzip and None only.
C11_Witness ==
    /\ rr_op.name = "packages_indices_entries_preferred_compression"
    /\ rr_preferred = "Xz"
    /\ Len(rr_release.entries) = 2
    /\ \A n \in DOMAIN rr_release.entries : rr_release.entries[n].kind = "Packages"
    /\ PackagesKey(rr_release.entries[1]) = PackagesKey(rr_release.entries[2])
    /\ {rr_release.entries[n].compression : n \in DOMAIN rr_release.entries}
           = {"Gzip", "None"}
    /\ rr_result.kind = "Entries"
    /\ Len(rr_result.entries) = 1
    /\ rr_result.entries[1].compression = "Gzip"

\* C12: a collapse that succeeds returns one winner per key: every key among
\* the index entries of its kind is the key of exactly one returned entry,
\* nothing else is returned, and each returned entry is a line of the
\* Release file, read from the table of the negotiated checksum.
C12_OneWinnerPerKey ==
    (CollapsedKind # "" /\ rr_result.kind = "Entries") =>
        LET kind == CollapsedKind
            lines == {rr_release.entries[n] : n \in
                         {m \in DOMAIN rr_release.entries :
                              rr_release.entries[m].kind = kind}}
            keys == {KeyOf(kind, e) : e \in lines}
            returned == rr_result.entries
        IN  /\ \A k \in keys :
                   Cardinality({i \in DOMAIN returned :
                                    KeyOf(kind, returned[i]) = k}) = 1
            /\ Len(returned) = Cardinality(keys)
            /\ \A i \in DOMAIN returned :
                   /\ [returned[i] EXCEPT !.checksum = ""] \in lines
                   /\ FieldName(returned[i].checksum) \in rr_release.fields

\* The Packages collapse returned two winners for the two groups the Release
\* file lists, one of them the installer's.
C12_Witness ==
    /\ rr_op.name = "packages_indices_entries_preferred_compression"
    /\ rr_result.kind = "Entries"
    /\ Len(rr_result.entries) = 2
    /\ rr_result.entries[1].is_installer # rr_result.entries[2].is_installer
    /\ Len(rr_release.entries) = 2

(***************************************************************************)
(* ReleaseReader entry lookups: packages_entry, sources_entry and           *)
(* contents_entry, each called on a reader at rest and returning to it.     *)
(***************************************************************************)
\* The index files of the Release files the lookups are called on.  A
\* Contents file may belong to no component: its component is then "".
EntryFiles ==
    <<<<"Packages", "main", "amd64", FALSE>>,
      <<"Packages", "main", "amd64", TRUE>>,
      <<"Packages", "main", "arm64", FALSE>>,
      <<"Packages", "contrib", "amd64", FALSE>>,
      <<"Sources", "main", "", FALSE>>,
      <<"Sources", "contrib", "", FALSE>>,
      <<"Contents", "main", "amd64", FALSE>>,
      <<"Contents", "", "amd64", FALSE>>>>

\* The compressions these files are published in.
EntryCompressionList == <<"Gzip", "Xz", "Zstd">>

EntryLineCount == Len(EntryFiles) * Len(EntryCompressionList)

EntryLine(n) ==
    LET file == EntryFiles[((n - 1) \div Len(EntryCompressionList)) + 1]
        compression == EntryCompressionList[((n - 1) % Len(EntryCompressionList)) + 1]
    IN  IndexEntry(file[1], file[2], file[3], file[4], compression, "")

EntryTables ==
    LET Increasing(at) == \A i, j \in DOMAIN at : i < j => at[i] < at[j]
        places == {at \in UNION {[1..n -> 1..EntryLineCount] : n \in 0..MaxEntries} :
                      Increasing(at)}
    IN  {[i \in DOMAIN at |-> EntryLine(at[i])] : at \in places}

EntryReleaseFiles ==
    {ReleaseFile(f, e) : f \in {{"SHA256"}, {"SHA1", "MD5Sum"}}, e \in EntryTables}
    \cup {ReleaseFile({}, <<>>)}

\* The arguments the lookups are called with.
Components == {"main", "contrib"}

Architectures == {"amd64", "arm64"}

\* Option<&str>
NoComponent == [some |-> FALSE, name |-> ""]

SomeComponent(name) == [some |-> TRUE, name |-> name]

\* Lines 694, 700: entry.component == component.map(Cow::from), an entry
\* without a component holding "".
ComponentIs(entry, component) ==
    IF component.some
    THEN entry.component # "" /\ entry.component = component.name
    ELSE entry.component = ""

\* into_iter().find(..).ok_or(notfound) at lines 458-464 and 585-587.
FindEntry(entries, Wanted(_), notfound) ==
    LET at == {i \in DOMAIN entries : Wanted(entries[i])}
    IN  IF at = {}
        THEN ErrAnswer(notfound)
        ELSE OkEntry(entries[CHOOSE i \in at : \A j \in at : i <= j])

\* Mutant of PackagesEntryOf: the architecture is not compared.
PackagesEntryAnyArchitecture(collapsed, component, architecture, is_installer) ==
    IF collapsed.kind = "Err"
    THEN collapsed
    ELSE LET Wanted(entry) ==
                 /\ entry.component = component
                 /\ entry.is_installer = is_installer
         IN  FindEntry(collapsed.entries, Wanted,
                       "RepositoryReadPackagesIndicesEntryNotFound")

\* Lines 457-464.
PackagesEntryOf(collapsed, component, architecture, is_installer) ==
    IF collapsed.kind = "Err"
    THEN collapsed
    ELSE LET Wanted(entry) ==
                 /\ entry.component = component
                 /\ entry.architecture = architecture
                 /\ entry.is_installer = is_installer
         IN  FindEntry(collapsed.entries, Wanted,
                       "RepositoryReadPackagesIndicesEntryNotFound")

\* Lines 584-587.
SourcesEntryOf(collapsed, component) ==
    IF collapsed.kind = "Err"
    THEN collapsed
    ELSE LET Wanted(entry) == entry.component = component
         IN  FindEntry(collapsed.entries, Wanted,
                       "RepositoryReadSourcesIndicesEntryNotFound")

\* Mutant of ContentsEntryOf: the preferred compression is not consulted.
ContentsEntryDefaultOnly(release, preferred, component, architecture, is_installer) ==
    LET listed == IndicesEntries(release, "Contents")
    IN  IF listed.kind = "Err"
        THEN listed
        ELSE LET Wanted(entry) ==
                     /\ ComponentIs(entry, component)
                     /\ entry.architecture = architecture
                     /\ entry.is_installer = is_installer
             IN  DefaultOrderWinner(SelectSeq(listed.entries, Wanted),
                     "RepositoryReadContentsIndicesEntryNotFound")

\* Lines 696-722: the Contents entries of the key, then the entry in the
\* preferred compression, then the first of the default order.
ContentsEntryOf(release, preferred, component, architecture, is_installer) ==
    LET listed == IndicesEntries(release, "Contents")
    IN  IF listed.kind = "Err"
        THEN listed
        ELSE LET Wanted(entry) ==
                     /\ ComponentIs(entry, component)
                     /\ entry.architecture = architecture
                     /\ entry.is_installer = is_installer
                 entries == SelectSeq(listed.entries, Wanted)
             IN  IF FindCompression(entries, preferred).some
                 THEN OkEntry(FindCompression(entries, preferred).entry)
                 ELSE DefaultOrderWinner(entries,
                          "RepositoryReadContentsIndicesEntryNotFound")

EntryInit ==
    /\ rr_release \in EntryReleaseFiles
    /\ rr_preferred \in Compressions
    /\ rr_op = NoQuery
    /\ rr_result = NoAnswer
    /\ CopyIdle
    /\ FetchIdle
    /\ ResolveIdle

\* Lines 451-465.
PackagesEntry(component, architecture, is_installer) ==
    /\ rr_op.name = ""
    /\ rr_op' = Query("packages_entry", <<component, architecture, is_installer>>)
    /\ \E order \in CollapseOrders("Packages", rr_release) :
         rr_result' = PackagesEntryOf(
                          PreferredCompressionCollapse("Packages", rr_release,
                              rr_preferred, CollapseNotFound("Packages"), order),
                          component, architecture, is_installer)
    /\ UNCHANGED <<rr_release, rr_preferred>>
    /\ UNCHANGED notReleaseVars

\* Lines 583-588.
SourcesEntry(component) ==
    /\ rr_op.name = ""
    /\ rr_op' = Query("sources_entry", <<component>>)
    /\ \E order \in CollapseOrders("Sources", rr_release) :
         rr_result' = SourcesEntryOf(
                          PreferredCompressionCollapse("Sources", rr_release,
                              rr_preferred, CollapseNotFound("Sources"), order),
                          component)
    /\ UNCHANGED <<rr_release, rr_preferred>>
    /\ UNCHANGED notReleaseVars

\* Lines 688-723.
ContentsEntry(component, architecture, is_installer) ==
    /\ rr_op.name = ""
    /\ rr_op' = Query("contents_entry", <<component, architecture, is_installer>>)
    /\ rr_result' = ContentsEntryOf(rr_release, rr_preferred, component,
                                    architecture, is_installer)
    /\ UNCHANGED <<rr_release, rr_preferred>>
    /\ UNCHANGED notReleaseVars

\* The caller has its answer; the reader is at rest again.
EntryReturn ==
    /\ rr_op.name # ""
    /\ rr_op' = NoQuery
    /\ rr_result' = NoAnswer
    /\ UNCHANGED <<rr_release, rr_preferred>>
    /\ UNCHANGED notReleaseVars

EntryNext ==
    \/ \E component \in Components, architecture \in Architectures,
          is_installer \in BOOLEAN :
          PackagesEntry(component, architecture, is_installer)
    \/ \E component \in Components : SourcesEntry(component)
    \/ \E component \in {NoComponent} \cup {SomeComponent(c) : c \in Components},
          architecture \in Architectures, is_installer \in BOOLEAN :
          ContentsEntry(component, architecture, is_installer)
    \/ EntryReturn

SpecEntry == EntryInit /\ [][EntryNext]_vars

(***************************************************************************)
(* Properties of the entry lookups (checked under SpecEntry).              *)
(***************************************************************************)
\* The error kind that belongs to an index kind.
NotFoundOf(kind) ==
    CASE kind = "Packages" -> "RepositoryReadPackagesIndicesEntryNotFound"
      [] kind = "Sources" -> "RepositoryReadSourcesIndicesEntryNotFound"
      [] kind = "Contents" -> "RepositoryReadContentsIndicesEntryNotFound"

\* The Contents lines of the Release file with the key of the arguments.
ContentsLinesOf(component, architecture, is_installer) ==
    {n \in DOMAIN rr_release.entries :
        /\ rr_release.entries[n].kind = "Contents"
        /\ ComponentIs(rr_release.entries[n], component)
        /\ rr_release.entries[n].architecture = architecture
        /\ rr_release.entries[n].is_installer = is_installer}

WinnerCompression(held) ==
    IF rr_preferred \in held
    THEN rr_preferred
    ELSE CHOOSE c \in held : \A d \in held : OrderPlace(c) <= OrderPlace(d)

\* The checksum a Release file with checksum fields negotiates.
NegotiatedChecksum ==
    IF "SHA256" \in rr_release.fields THEN "Sha256"
    ELSE IF "SHA1" \in rr_release.fields THEN "Sha1"
    ELSE "Md5"

\* What a lookup of `kind` by `key` has to return: the winner of the group of
\* that key, or the NotFound error of the kind when no line has the key.
LookupAnswer(kind, key) ==
    LET group == {n \in DOMAIN rr_release.entries :
                     /\ rr_release.entries[n].kind = kind
                     /\ KeyOf(kind, rr_release.entries[n]) = key}
        held == {rr_release.entries[n].compression : n \in group}
    IN  IF group = {}
        THEN ErrAnswer(NotFoundOf(kind))
        ELSE OkEntry([rr_release.entries[CHOOSE n \in group : TRUE]
                         EXCEPT !.compression = WinnerCompression(held),
                                !.checksum = NegotiatedChecksum])

\* The lookup called, as a kind and a key ("" when none is in progress).
LookupKind ==
    CASE rr_op.name = "packages_entry" -> "Packages"
      [] rr_op.name = "sources_entry" -> "Sources"
      [] OTHER -> ""

NoKnownChecksum == ErrAnswer("RepositoryReadReleaseNoKnownChecksum")

\* C22: a reader bound to a Release file with none of the fields SHA256, SHA1
\* and MD5Sum carries no error until an operation selects a checksum, and
\* then retrieve_checksum, classified_indices_entries, the Packages, Sources
\* and Contents indices entries, both collapses, packages_entry,
\* sources_entry and contents_entry each fail with
\* RepositoryReadReleaseNoKnownChecksum; none returns an empty result.
C22_LazyNoKnownChecksum ==
    rr_release.fields \cap ChecksumFields = {} =>
        /\ rr_op.name = "" => rr_result = NoAnswer
        /\ rr_op.name # "" => rr_result = NoKnownChecksum
        /\ RetrieveChecksum(rr_release) = NoKnownChecksum
        /\ ClassifiedIndicesEntries(rr_release) = NoKnownChecksum
        /\ \A kind \in {"Packages", "Sources", "Contents"} :
               IndicesEntries(rr_release, kind) = NoKnownChecksum
        /\ \A kind \in {"Packages", "Sources"} :
               \A order \in CollapseOrders(kind, rr_release) :
                   PreferredCompressionCollapse(kind, rr_release, rr_preferred,
                       CollapseNotFound(kind), order) = NoKnownChecksum

\* contents_entry was called on a Release file without checksum fields and
\* failed with RepositoryReadReleaseNoKnownChecksum.
C22_Witness ==
    /\ rr_release.fields = {}
    /\ rr_op.name = "contents_entry"
    /\ rr_result.kind = "Err"
    /\ rr_result.err.variant = "RepositoryReadReleaseNoKnownChecksum"

\* What contents_entry has to return for a key: the line of the group in the
\* compression that wins, from the negotiated table, or the NotFound error
\* of Contents when the Release file lists no Contents line of the key.
ContentsAnswer(component, architecture, is_installer) ==
    LET group == ContentsLinesOf(component, architecture, is_installer)
        held == {rr_release.entries[n].compression : n \in group}
    IN  IF group = {}
        THEN ErrAnswer(NotFoundOf("Contents"))
        ELSE OkEntry([rr_release.entries[CHOOSE n \in group : TRUE]
                         EXCEPT !.compression = WinnerCompression(held),
                                !.checksum = NegotiatedChecksum])

\* The Release file with every line outside the Contents group of the key
\* taken out.
OnlyContentsGroup(component, architecture, is_installer) ==
    LET group == ContentsLinesOf(component, architecture, is_installer)
        InGroup(e) == \E n \in group : rr_release.entries[n] = e
    IN  ReleaseFile(rr_release.fields, SelectSeq(rr_release.entries, InGroup))

C36_WitnessOtherGroup ==
    /\ rr_op.name = "contents_entry"
    /\ rr_op.arg = <<NoComponent, "amd64", FALSE>>
    /\ \E n \in DOMAIN rr_release.entries :
           /\ rr_release.entries[n].kind = "Contents"
           /\ rr_release.entries[n].component = "main"
    /\ rr_result = ErrAnswer(NotFoundOf("Contents"))

(***************************************************************************)
(* ReleaseReader resolution: resolve_package_fetches,                      *)
(* resolve_source_fetches and resolve_contents.  The futures of            *)
(* resolve_packages_from_entry / resolve_sources_from_entry run under       *)
(* buffer_unordered(threads): each poll of the buffer first moves futures   *)
(* from the stream into its queue while the queue holds fewer than          *)
(* `threads`, then polls the queue; a future makes its request of the       *)
(* repository when it is first polled.                                      *)
(***************************************************************************)
\* A request of the repository, made by the future of `entry`.
Request(entry, path) == [entry |-> entry, path |-> path]

\* The index kind a resolve operation works on.
ResolvedKind(name) ==
    CASE name = "resolve_package_fetches" -> "Packages"
      [] name = "resolve_source_fetches" -> "Sources"
      [] name = "resolve_contents" -> "Contents"
      [] OTHER -> ""

\* An error value of the release reader, as a resolve operation returns it.
ResolveError(answer) == ResolveFailed(answer.err)

\* Lines 533-541 and 655-663: the collapse, then one future per entry the
\* file filter accepts; none is polled yet.
CallResolveFetches(name, file_filter, package_filter, threads) ==
    /\ rs_call' = ResolveCall(name, file_filter, package_filter, threads)
    /\ \E order \in CollapseOrders(ResolvedKind(name), rr_release) :
         LET collapsed == PreferredCompressionCollapse(ResolvedKind(name),
                              rr_release, rr_preferred,
                              CollapseNotFound(ResolvedKind(name)), order)
             Accepted(entry) == AcceptsFile(file_filter, entry)
         IN  rs_run' =
                 IF collapsed.kind = "Err"
                 THEN [NoRun EXCEPT !.pc = "done", !.result = ResolveError(collapsed)]
                 ELSE [NoRun EXCEPT !.pc = "polling",
                                    !.pending = SelectSeq(collapsed.entries, Accepted)]
    /\ UNCHANGED rs_repo
    /\ UNCHANGED notResolveVars

\* Lines 527-541.
ResolvePackageFetches(file_filter, package_filter, threads) ==
    /\ rs_run.pc = "idle"
    /\ CallResolveFetches("resolve_package_fetches", file_filter, package_filter,
                          threads)

\* Lines 649-663.
ResolveSourceFetches(file_filter, package_filter, threads) ==
    /\ rs_run.pc = "idle"
    /\ CallResolveFetches("resolve_source_fetches", file_filter, package_filter,
                          threads)

\* Mutant of HasRoom: the queue takes every future.
HasRoomAlways(inflight, threads) == TRUE

\* Line 541, buffer_unordered(threads): the queue takes a future while it
\* holds fewer than `threads`.
HasRoom(inflight, threads) == Cardinality(inflight) < threads

\* The buffer moves the next future into its queue, which has room, and polls
\* it: resolve_*_from_entry computes the path and requests it (lines 474-487,
\* 599-612).
PollStart ==
    /\ rs_run.pc = "polling"
    /\ rs_run.pending # <<>>
    /\ HasRoom(rs_run.inflight, rs_call.threads)
    /\ LET entry == Head(rs_run.pending)
       IN  rs_run' = [rs_run EXCEPT
               !.pending = Tail(rs_run.pending),
               !.inflight = rs_run.inflight \cup {entry},
               !.requests = Append(rs_run.requests,
                                Request(entry, IndexPath(rs_repo.by_hash, entry)))]
    /\ UNCHANGED <<rs_repo, rs_call>>
    /\ UNCHANGED notResolveVars

\* The path the future of `entry` requested.
RequestedPath(requests, entry) ==
    requests[CHOOSE i \in DOMAIN requests : requests[i].entry = entry].path

\* With the queue filled, a future completes with what the repository
\* answers; try_next yields it and the loop body runs on it (lines 545-573,
\* 667-680).  An error returns at once, dropping the buffer and the futures
\* in it.
PollComplete ==
    /\ rs_run.pc = "polling"
    /\ \/ rs_run.pending = <<>>
       \/ ~HasRoom(rs_run.inflight, rs_call.threads)
    /\ \E entry \in rs_run.inflight : \E served \in rs_repo.serves[entry.kind] :
       LET from_entry == FromEntry(RequestedPath(rs_run.requests, entry), served)
           gathered == Gather(entry.kind, from_entry.value, rs_call.package_filter,
                              RetrieveChecksum(rr_release).checksum,
                              rs_run.fetches)
           answered == Append(rs_run.served, [entry |-> entry, served |-> served])
       IN  rs_run' =
               IF ~from_entry.ok
               THEN [rs_run EXCEPT !.pc = "done", !.inflight = {},
                                   !.served = answered,
                                   !.result = ResolveFailed(from_entry.err)]
               ELSE IF ~gathered.ok
               THEN [rs_run EXCEPT !.pc = "done", !.inflight = {},
                                   !.served = answered,
                                   !.result = ResolveFailed(gathered.err)]
               ELSE [rs_run EXCEPT !.inflight = rs_run.inflight \ {entry},
                                   !.served = answered,
                                   !.fetches = gathered.value]
    /\ UNCHANGED <<rs_repo, rs_call>>
    /\ UNCHANGED notResolveVars

\* The stream is exhausted and the queue empty: try_next yields None and the
\* fetches are returned (lines 575, 682).  A buffer of capacity 0 never polls
\* its stream and so never finds it exhausted.
PollFinish ==
    /\ rs_run.pc = "polling"
    /\ rs_run.pending = <<>>
    /\ rs_run.inflight = {}
    /\ rs_call.threads > 0
    /\ rs_run' = [rs_run EXCEPT !.pc = "done", !.result = Resolved(rs_run.fetches)]
    /\ UNCHANGED <<rs_repo, rs_call>>
    /\ UNCHANGED notResolveVars

\* Lines 725-747: contents_entry, then the request of its path.
ResolveContents(component, architecture, is_installer) ==
    /\ rs_run.pc = "idle"
    /\ rs_call' = ResolveCall("resolve_contents", "", "", 1)
    /\ LET found == ContentsEntryOf(rr_release, rr_preferred, component,
                                    architecture, is_installer)
       IN  rs_run' =
               IF found.kind = "Err"
               THEN [NoRun EXCEPT !.pc = "done", !.result = ResolveError(found)]
               ELSE [NoRun EXCEPT
                        !.pc = "reading",
                        !.inflight = {found.entries[1]},
                        !.requests = <<Request(found.entries[1],
                                         IndexPath(rs_repo.by_hash, found.entries[1]))>>]
    /\ UNCHANGED rs_repo
    /\ UNCHANGED notResolveVars

\* Lines 747-758: the stream is opened, read and drained; a failure of the
\* read surfaces from read_all or from drain_reader.
ContentsComplete ==
    /\ rs_run.pc = "reading"
    /\ \E entry \in rs_run.inflight, served \in rs_repo.serves["Contents"],
          variant \in {"Io", "RepositoryIoPath"} :
         LET path == RequestedPath(rs_run.requests, entry)
             from_entry == FromEntry(path, served)
             failure == IF served.status = "IntegrityMismatch"
                        THEN ErrValue(variant,
                                 IF variant = "Io" THEN "" ELSE <<path>>)
                        ELSE from_entry
         IN  rs_run' = [rs_run EXCEPT
                 !.pc = "done",
                 !.inflight = {},
                 !.served = <<[entry |-> entry, served |-> served]>>,
                 !.result = IF from_entry.ok
                            THEN Resolved(<<>>)
                            ELSE ResolveFailed(failure.err)]
    /\ UNCHANGED <<rs_repo, rs_call>>
    /\ UNCHANGED notResolveVars

\* The caller has its answer; the reader is at rest again.
ResolveReturn ==
    /\ rs_run.pc = "done"
    /\ rs_call' = NoResolveCall
    /\ rs_run' = NoRun
    /\ UNCHANGED rs_repo
    /\ UNCHANGED notResolveVars

ResolveNext ==
    \/ \E file_filter \in FileFilters, package_filter \in PackageFilters,
          threads \in 0..MaxThreads :
          ResolvePackageFetches(file_filter, package_filter, threads)
    \/ \E file_filter \in FileFilters, package_filter \in PackageFilters,
          threads \in 0..MaxThreads :
          ResolveSourceFetches(file_filter, package_filter, threads)
    \/ PollStart
    \/ PollComplete
    \/ PollFinish
    \/ \E component \in {NoComponent, SomeComponent("main")} :
          ResolveContents(component, "amd64", FALSE)
    \/ ContentsComplete
    \/ ResolveReturn

\* The index files of the Release files fetches are resolved from, each
\* published in two compressions.
ResolveFiles ==
    <<<<"Packages", "main", "amd64", FALSE>>,
      <<"Packages", "contrib", "amd64", FALSE>>,
      <<"Sources", "main", "", FALSE>>,
      <<"Sources", "contrib", "", FALSE>>,
      <<"Contents", "main", "amd64", FALSE>>>>

ResolveCompressionList == <<"Gzip", "Xz">>

ResolveLineCount == Len(ResolveFiles) * Len(ResolveCompressionList)

ResolveLine(n) ==
    LET file == ResolveFiles[((n - 1) \div Len(ResolveCompressionList)) + 1]
        compression ==
            ResolveCompressionList[((n - 1) % Len(ResolveCompressionList)) + 1]
    IN  IndexEntry(file[1], file[2], file[3], file[4], compression, "")

ResolveTables ==
    LET Increasing(at) == \A i, j \in DOMAIN at : i < j => at[i] < at[j]
        places == {at \in UNION {[1..n -> 1..ResolveLineCount] : n \in 0..MaxEntries} :
                      Increasing(at)}
    IN  {[i \in DOMAIN at |-> ResolveLine(at[i])] : at \in places}

ResolveReleaseFiles ==
    {ReleaseFile(f, e) : f \in {{"SHA256"}, {"MD5Sum"}}, e \in ResolveTables}
    \cup {ReleaseFile({}, <<>>)}

\* A well-formed binary package paragraph.
GoodPackage(package) ==
    BinaryPackageControlFile(package, Field(<<"pool", package>>),
        Field(<<"4", "2">>),
        [f \in ChecksumFields |->
            IF f = "SHA256" THEN Field(<<"a", "b">>) ELSE NoField])

\* A source package paragraph with two files in every checksum table.
GoodSource(package) ==
    DebianSourceControlFile(package,
        [f \in ChecksumFields |-> Field(<<<<package, "dsc">>, <<package, "tar">>>>)])

\* The failures of a request or of the read of what it returned.
FailedServes ==
    {Served(status, <<>>) : status \in {"NotFound", "IntegrityMismatch", "ParseError"}}

\* What the index files may hold.
ResolveServes ==
    [kind \in {"Packages", "Sources", "Contents"} |->
        FailedServes \cup
        CASE kind = "Packages" ->
                 {Served("ok", list) :
                     list \in {<<>>, <<GoodPackage("a")>>,
                               <<GoodPackage("a"), GoodPackage("b")>>}}
          [] kind = "Sources" ->
                 {Served("ok", list) :
                     list \in {<<>>, <<GoodSource("a")>>,
                               <<GoodSource("a"), GoodSource("b")>>}}
          [] kind = "Contents" -> {Served("ok", <<>>)}]

ResolveInit ==
    /\ rr_release \in ResolveReleaseFiles
    /\ rr_preferred \in {"Gzip", "Xz"}
    /\ rr_op = NoQuery
    /\ rr_result = NoAnswer
    /\ rs_repo \in {[by_hash |-> b, serves |-> ResolveServes] : b \in ByHashValues}
    /\ rs_call = NoResolveCall
    /\ rs_run = NoRun
    /\ CopyIdle
    /\ FetchIdle

SpecResolve == ResolveInit /\ [][ResolveNext]_vars

(***************************************************************************)
(* Properties of the resolution of fetches (checked under SpecResolve).    *)
(***************************************************************************)
\* C15: the Release file alone decides the path of an index fetch.  With
\* Acquire-By-Hash: yes every request of resolve_package_fetches,
\* resolve_source_fetches and resolve_contents is for the entry's by-hash
\* path, {dir}/by-hash/{ALGO}/{digest}; with no, or without the field, every
\* request is for the path the entry lists; one invocation never has both.
C15_ByHashRouting ==
    \A i \in DOMAIN rs_run.requests :
        LET entry == rs_run.requests[i].entry
            path == rs_run.requests[i].path
        IN  IF rs_repo.by_hash = "yes"
            THEN /\ path.form = "by-hash"
                 /\ path.dir = DirOf(entry)
                 /\ path.algo \in rr_release.fields
                 /\ path.digest = <<EntryDigest(entry)>>
            ELSE /\ path.form = "nominal"
                 /\ path.dir = DirOf(entry)
                 /\ path.name = <<entry.kind, entry.compression>>

\* resolve_package_fetches requested two Packages files of a Release file
\* with Acquire-By-Hash: yes, both by hash.
C15_Witness ==
    /\ rs_call.name = "resolve_package_fetches"
    /\ rs_repo.by_hash = "yes"
    /\ Len(rs_run.requests) = 2
    /\ \A i \in DOMAIN rs_run.requests : rs_run.requests[i].path.form = "by-hash"

\* The requests made for the index file of `entry`.
RequestsFor(entry) ==
    {i \in DOMAIN rs_run.requests :
        /\ rs_run.requests[i].entry.kind = entry.kind
        /\ DirOf(rs_run.requests[i].entry) = DirOf(entry)}

\* C16: a failed index fetch is not tried again: every future makes one
\* request of the repository, no index file is requested twice, and when an
\* answer is a failure it is the last answer of the call, which returns that
\* error.
C16_NoRetry ==
    /\ \A i \in DOMAIN rs_run.requests :
           RequestsFor(rs_run.requests[i].entry) = {i}
    /\ Len(rs_run.served) <= Len(rs_run.requests)
    /\ rs_run.pc \in {"polling", "reading"} =>
           Len(rs_run.requests) = Len(rs_run.served) + Cardinality(rs_run.inflight)
    /\ \A k \in DOMAIN rs_run.served :
           rs_run.served[k].served.status # "ok" =>
               /\ k = Len(rs_run.served)
               /\ rs_run.pc = "done"
               /\ rs_run.result.kind = "Err"
               /\ rs_run.result.err.variant =
                      CASE rs_run.served[k].served.status = "NotFound" ->
                               "RepositoryIoPath"
                        [] rs_run.served[k].served.status = "ParseError" ->
                               "ControlParseError"
                        [] OTHER -> rs_run.result.err.variant
               /\ Cardinality(RequestsFor(rs_run.served[k].entry)) = 1

\* The by-hash path of a Packages file was not found: the call returned the
\* error after that one request.
C16_Witness ==
    /\ rs_call.name = "resolve_package_fetches"
    /\ rs_repo.by_hash = "yes"
    /\ rs_run.pc = "done"
    /\ Len(rs_run.requests) = 1
    /\ rs_run.requests[1].path.form = "by-hash"
    /\ Len(rs_run.served) = 1
    /\ rs_run.served[1].served.status = "NotFound"
    /\ rs_run.result.kind = "Err"
    /\ rs_run.result.err.variant = "RepositoryIoPath"

\* C17: while resolve_package_fetches or resolve_source_fetches runs, the
\* index fetches started and not completed are never more than `threads`.
C17_InFlightBound ==
    rs_call.name \in {"resolve_package_fetches", "resolve_source_fetches"} =>
        /\ Cardinality(rs_run.inflight) <= rs_call.threads
        /\ rs_run.pc = "polling" =>
               Len(rs_run.requests) - Len(rs_run.served) <= rs_call.threads

\* With threads = 1 one index fetch is in flight and the other selected
\* index file waits for it.
C17_Witness ==
    /\ rs_call.name = "resolve_package_fetches"
    /\ rs_call.threads = 1
    /\ rs_run.pc = "polling"
    /\ Cardinality(rs_run.inflight) = 1
    /\ Len(rs_run.pending) = 1

\* The Packages lines of the Release file that packages_file_filter accepts.
AcceptedLines ==
    {n \in DOMAIN rr_release.entries :
        /\ rr_release.entries[n].kind = "Packages"
        /\ AcceptsFile(rs_call.file_filter, rr_release.entries[n])}

\* The index files resolve_package_fetches has to read: for every accepted
\* line, the file of its group in the compression that wins the group.
SelectedFiles ==
    {<<DirOf(rr_release.entries[n]),
       WinnerCompression({rr_release.entries[m].compression :
           m \in {k \in DOMAIN rr_release.entries :
                     /\ rr_release.entries[k].kind = "Packages"
                     /\ DirOf(rr_release.entries[k]) = DirOf(rr_release.entries[n])}})>> :
        n \in AcceptedLines}

\* The index files read to the end.
CompletedFiles ==
    {<<DirOf(rs_run.served[k].entry), rs_run.served[k].entry.compression>> :
        k \in DOMAIN rs_run.served}

\* The places of paragraph `cf` in the index files read.
PlacesOf(cf) ==
    UNION {{<<k, i>> : i \in {h \in DOMAIN rs_run.served[k].served.list :
                                  rs_run.served[k].served.list[h] = cf}} :
              k \in DOMAIN rs_run.served}

\* The paragraphs of the index files read.
ParagraphsRead ==
    UNION {{rs_run.served[k].served.list[i] : i \in DOMAIN rs_run.served[k].served.list} :
              k \in DOMAIN rs_run.served}

\* C18: when resolve_package_fetches succeeds every selected index fetch has
\* completed, each once, and the fetches returned are, as a multiset, the
\* paragraphs binary_package_filter accepts of the preferred-compression
\* Packages files packages_file_filter accepts, whatever the order in which
\* the index fetches completed.
C18_AllCompleteExactFetches ==
    (rs_call.name = "resolve_package_fetches" /\ rs_run.result.kind = "Ok") =>
        /\ rs_run.pending = <<>>
        /\ rs_run.inflight = {}
        /\ CompletedFiles = SelectedFiles
        /\ Len(rs_run.served) = Cardinality(SelectedFiles)
        /\ Len(rs_run.requests) = Len(rs_run.served)
        /\ \A k \in DOMAIN rs_run.served : rs_run.served[k].served.status = "ok"
        /\ rs_run.result.fetches = rs_run.fetches
        /\ \A j \in DOMAIN rs_run.fetches :
               rs_run.fetches[j].control_file \in ParagraphsRead
        /\ \A cf \in ParagraphsRead :
               Cardinality({j \in DOMAIN rs_run.fetches :
                               rs_run.fetches[j].control_file = cf}) =
                   IF AcceptsPackage(rs_call.package_filter, cf)
                   THEN Cardinality(PlacesOf(cf))
                   ELSE 0

\* Two Packages files were selected and the one requested second completed
\* first; each held packages a and b, the filter accepts only a, and the call
\* returned the two fetches of a.
C18_Witness ==
    /\ rs_call.name = "resolve_package_fetches"
    /\ rs_call.package_filter = "package a only"
    /\ rs_run.result.kind = "Ok"
    /\ Len(rs_run.requests) = 2
    /\ Len(rs_run.served) = 2
    /\ rs_run.served[1].entry = rs_run.requests[2].entry
    /\ \A k \in 1..2 : Len(rs_run.served[k].served.list) = 2
    /\ Len(rs_run.result.fetches) = 2

(***************************************************************************)
(* The extraction of a fetch from a paragraph: the same operations over    *)
(* Packages files whose last paragraph has any combination of absent,      *)
(* well-formed and malformed fields.                                       *)
(***************************************************************************)
\* The text of a well-formed checksum field, one per field.
GoodHex(name) ==
    CASE name = "SHA256" -> <<"a", "b">>
      [] name = "SHA1" -> <<"c", "d">>
      [] name = "MD5Sum" -> <<"e", "f">>

\* A text that is no hexadecimal number.
BadHex == <<"z", "z">>

\* The Size fields: absent, a number, a text with a letter, an empty text.
ExtractSizes == {NoField, Field(<<"4", "2">>), Field(<<"4", "x">>), Field(<<>>)}

\* The paragraphs whose extraction is observed.
ExtractParagraphs ==
    {BinaryPackageControlFile(package, filename, size, sums) :
        package \in {"a", "b"},
        filename \in {NoField, Field(<<"pool", "x">>)},
        size \in ExtractSizes,
        sums \in {s \in [ChecksumFields -> {NoField, Field(BadHex)} \cup
                                           {Field(GoodHex(f)) : f \in ChecksumFields}] :
                     \A f \in ChecksumFields :
                         s[f].some /\ s[f].text # BadHex => s[f].text = GoodHex(f)}}

\* What the index files of a repository may hold: a Packages file ends with
\* paragraph `p`, alone or after a well-formed one.
ExtractServes(p) ==
    [kind \in {"Packages", "Sources", "Contents"} |->
        CASE kind = "Packages" ->
                 {Served("ok", <<p>>), Served("ok", <<GoodPackage("a"), p>>)}
          [] kind = "Sources" -> {Served("ok", <<GoodSource("a")>>)}
          [] kind = "Contents" -> {Served("ok", <<>>)}]

\* The Release file lists one Packages file and one Contents file.
ExtractReleaseFiles ==
    {ReleaseFile(f,
         <<IndexEntry("Packages", "main", "amd64", FALSE, "Xz", ""),
           IndexEntry("Contents", "main", "amd64", FALSE, "Xz", "")>>) :
        f \in {{"SHA256"}, {"MD5Sum"}}}

ExtractInit ==
    /\ rr_release \in ExtractReleaseFiles
    /\ rr_preferred = "Xz"
    /\ rr_op = NoQuery
    /\ rr_result = NoAnswer
    /\ rs_repo \in {[by_hash |-> "no", serves |-> ExtractServes(p)] :
                       p \in ExtractParagraphs}
    /\ rs_call = NoResolveCall
    /\ rs_run = NoRun
    /\ CopyIdle
    /\ FetchIdle

SpecExtract == ExtractInit /\ [][ResolveNext]_vars

\* resolve_package_fetches has read its Packages file and returned.
Extracted ==
    /\ rs_call.name = "resolve_package_fetches"
    /\ rs_run.pc = "done"
    /\ Len(rs_run.served) = 1
    /\ rs_run.served[1].served.list # <<>>

\* The last paragraph of the Packages file read.
LastParagraph ==
    rs_run.served[1].served.list[Len(rs_run.served[1].served.list)]

\* The call failed with `variant`, returning no fetch.
FailedWith(variant) ==
    /\ rs_run.result.kind = "Err"
    /\ rs_run.result.err.variant = variant
    /\ rs_run.result.fetches = <<>>
    /\ \A j \in DOMAIN rs_run.fetches : rs_run.fetches[j].control_file # LastParagraph

\* The call returned a fetch of the last paragraph whose digest is the value
\* of `text` under `algo`.
DigestIs(algo, text) ==
    /\ rs_run.result.kind = "Ok"
    /\ rs_run.result.fetches # <<>>
    /\ LET fetch == rs_run.result.fetches[Len(rs_run.result.fetches)]
       IN  /\ fetch.control_file = LastParagraph
           /\ fetch.digest.algo = algo
           /\ fetch.digest.val = CASE text = <<"a", "b">> -> 171
                                   [] text = <<"c", "d">> -> 205
                                   [] text = <<"e", "f">> -> 239

\* The digest comes from the field `name` of the last paragraph: its value
\* when the text is hexadecimal, else the failure of the parse.
DigestFrom(algo, name) ==
    IF LastParagraph.sums[name].text = BadHex
    THEN FailedWith("ContentDigestBadHex")
    ELSE DigestIs(algo, LastParagraph.sums[name].text)

\* The last paragraph is accepted and has a path and a size.
AcceptedWithPathAndSize ==
    /\ Extracted
    /\ AcceptsPackage(rs_call.package_filter, LastParagraph)
    /\ LastParagraph.filename.some
    /\ LastParagraph.size = Field(<<"4", "2">>)

\* C19: the digest of the fetch of an accepted paragraph is that of the first
\* of the fields SHA256, SHA1, MD5Sum the paragraph has, whatever checksum
\* the Release file negotiates, parsed as hexadecimal under that field's
\* algorithm; with none of the three fields the call fails with
\* RepositoryReadCouldNotDeterminePackageDigest.
C19_PackageDigest ==
    AcceptedWithPathAndSize =>
        IF LastParagraph.sums["SHA256"].some THEN DigestFrom("Sha256", "SHA256")
        ELSE IF LastParagraph.sums["SHA1"].some THEN DigestFrom("Sha1", "SHA1")
        ELSE IF LastParagraph.sums["MD5Sum"].some THEN DigestFrom("Md5", "MD5Sum")
        ELSE FailedWith("RepositoryReadCouldNotDeterminePackageDigest")

\* The Release file has only MD5Sum; the paragraph has SHA1 and MD5Sum and no
\* SHA256, and its fetch has the SHA-1 digest.
C19_Witness ==
    /\ AcceptedWithPathAndSize
    /\ rr_release.fields = {"MD5Sum"}
    /\ ~LastParagraph.sums["SHA256"].some
    /\ LastParagraph.sums["SHA1"] = Field(<<"c", "d">>)
    /\ LastParagraph.sums["MD5Sum"] = Field(<<"e", "f">>)
    /\ DigestIs("Sha1", <<"c", "d">>)

\* No accepted paragraph has a checksum field: the call failed.
C19_WitnessNone ==
    /\ AcceptedWithPathAndSize
    /\ \A f \in ChecksumFields : ~LastParagraph.sums[f].some
    /\ FailedWith("RepositoryReadCouldNotDeterminePackageDigest")

\* The call failed with `variant` naming the field `name`.
FailedNaming(variant, name) ==
    /\ FailedWith(variant)
    /\ rs_run.result.err.path = name

\* C20: in resolve_package_fetches an accepted paragraph without Filename
\* fails the call with ControlRequiredFieldMissing("Filename"); one with
\* Filename and without Size fails it with ControlRequiredFieldMissing("Size");
\* one with Filename and a Size that is no u64 fails it with
\* ControlFieldIntParse.  No fetch of the paragraph is made in any of these
\* cases and the call returns no fetch.
C20_RequiredFields ==
    (Extracted /\ AcceptsPackage(rs_call.package_filter, LastParagraph)) =>
        /\ ~LastParagraph.filename.some =>
               FailedNaming("ControlRequiredFieldMissing", "Filename")
        /\ (LastParagraph.filename.some /\ ~LastParagraph.size.some) =>
               FailedNaming("ControlRequiredFieldMissing", "Size")
        /\ (LastParagraph.filename.some /\ LastParagraph.size.some
              /\ LastParagraph.size.text # <<"4", "2">>) =>
               FailedNaming("ControlFieldIntParse", "Size")

\* After a well-formed paragraph came one with Filename and no Size: the call
\* failed and the fetch of the first paragraph was not returned either.
C20_Witness ==
    /\ Extracted
    /\ Len(rs_run.served[1].served.list) = 2
    /\ AcceptsPackage(rs_call.package_filter, LastParagraph)
    /\ LastParagraph.filename.some
    /\ ~LastParagraph.size.some
    /\ LastParagraph.sums["SHA256"].some
    /\ FailedNaming("ControlRequiredFieldMissing", "Size")

\* C33: in resolve_package_fetches a paragraph that binary_package_filter
\* rejects causes no error, whatever fields it lacks, and the fetches
\* returned are those of the Packages file without it.
C33_RejectedParagraphs ==
    (Extracted /\ ~AcceptsPackage(rs_call.package_filter, LastParagraph)) =>
        /\ rs_run.result.kind = "Ok"
        /\ Len(rs_run.result.fetches) = Len(rs_run.served[1].served.list) - 1
        /\ \A j \in DOMAIN rs_run.result.fetches :
               /\ rs_run.result.fetches[j].control_file = rs_run.served[1].served.list[j]
               /\ rs_run.result.fetches[j].control_file # LastParagraph

\* After a well-formed paragraph came a rejected one with no Filename, no
\* Size and no checksum: the call returned the fetch of the first.
C33_Witness ==
    /\ Extracted
    /\ rs_call.package_filter = "package a only"
    /\ LastParagraph.package = "b"
    /\ ~LastParagraph.filename.some
    /\ ~LastParagraph.size.some
    /\ \A f \in ChecksumFields : ~LastParagraph.sums[f].some
    /\ rs_run.result.kind = "Ok"
    /\ Len(rs_run.result.fetches) = 1
    /\ rs_run.result.fetches[1].control_file = GoodPackage("a")

(***************************************************************************)
(* The expansion of source paragraphs: the same operations over Sources    *)
(* files whose last paragraph has, for each checksum, no table of files, a *)
(* table of one file or a table of two.                                    *)
(***************************************************************************)
\* The tables of files a source paragraph of `package` may have.
SourceFileTables(package) ==
    {NoField, Field(<<<<package, "dsc">>>>),
     Field(<<<<package, "dsc">>, <<package, "tar">>>>)}

\* The source paragraphs whose expansion is observed.
SourceParagraphs ==
    UNION {{DebianSourceControlFile(package, files) :
               files \in [ChecksumFields -> SourceFileTables(package)]} :
              package \in {"a", "b"}}

\* What the index files of a repository may hold: a Sources file ends with
\* paragraph `p`, alone or after a paragraph with every table.
SourcesServes(p) ==
    [kind \in {"Packages", "Sources", "Contents"} |->
        CASE kind = "Packages" -> {Served("ok", <<GoodPackage("a")>>)}
          [] kind = "Sources" ->
                 {Served("ok", <<p>>), Served("ok", <<GoodSource("b"), p>>)}
          [] kind = "Contents" -> {Served("ok", <<>>)}]

\* The Release file lists two Sources files and one Contents file.
SourcesReleaseFiles ==
    {ReleaseFile(f,
         <<IndexEntry("Sources", "main", "", FALSE, "Xz", ""),
           IndexEntry("Sources", "contrib", "", FALSE, "Xz", ""),
           IndexEntry("Contents", "main", "amd64", FALSE, "Xz", "")>>) :
        f \in {{"SHA256"}, {"SHA1", "MD5Sum"}, {"MD5Sum"}}}

SourcesInit ==
    /\ rr_release \in SourcesReleaseFiles
    /\ rr_preferred = "Xz"
    /\ rr_op = NoQuery
    /\ rr_result = NoAnswer
    /\ rs_repo \in {[by_hash |-> "no", serves |-> SourcesServes(p)] :
                       p \in SourceParagraphs}
    /\ rs_call = NoResolveCall
    /\ rs_run = NoRun
    /\ CopyIdle
    /\ FetchIdle

SpecSources == SourcesInit /\ [][ResolveNext]_vars

\* The table of files a paragraph has for the checksum the Release file
\* negotiates.
NegotiatedTable(cf) ==
    CASE NegotiatedChecksum = "Sha256" -> cf.files["SHA256"]
      [] NegotiatedChecksum = "Sha1" -> cf.files["SHA1"]
      [] NegotiatedChecksum = "Md5" -> cf.files["MD5Sum"]

\* The fetches returned for file `file` of paragraph `cf`.
FetchesOfFile(cf, file) ==
    {j \in DOMAIN rs_run.result.fetches :
        /\ rs_run.result.fetches[j].control_file = cf
        /\ rs_run.result.fetches[j].fetch.file = file}

\* C21: when resolve_source_fetches succeeds, it read only Sources files that
\* sources_file_filter accepts and returns, for every paragraph of them that
\* source_package_filter accepts, one SourcePackageFetch per file of the
\* paragraph's table for the checksum retrieve_checksum() returns, with the
\* paragraph as control_file; a rejected paragraph gives no fetch.
C21_SourceFetches ==
    (rs_call.name = "resolve_source_fetches" /\ rs_run.result.kind = "Ok") =>
        /\ \A k \in DOMAIN rs_run.served :
               /\ rs_run.served[k].entry.kind = "Sources"
               /\ AcceptsFile(rs_call.file_filter, rs_run.served[k].entry)
        /\ \A j \in DOMAIN rs_run.result.fetches :
               LET fetch == rs_run.result.fetches[j]
               IN  /\ fetch.control_file \in ParagraphsRead
                   /\ fetch.fetch.algo = NegotiatedChecksum
                   /\ \E h \in DOMAIN NegotiatedTable(fetch.control_file).text :
                          NegotiatedTable(fetch.control_file).text[h] = fetch.fetch.file
        /\ \A cf \in ParagraphsRead :
               IF AcceptsPackage(rs_call.package_filter, cf)
               THEN /\ NegotiatedTable(cf).some
                    /\ \A h \in DOMAIN NegotiatedTable(cf).text :
                           Cardinality(FetchesOfFile(cf, NegotiatedTable(cf).text[h])) =
                               Cardinality(PlacesOf(cf))
               ELSE \A j \in DOMAIN rs_run.result.fetches :
                        rs_run.result.fetches[j].control_file # cf

\* The Release file negotiates MD5; only the main Sources file and only
\* package a are accepted.  The file held package b, rejected, and package a,
\* whose MD5 table lists two files and whose SHA256 table lists one: the two
\* files of the MD5 table are the fetches.
C21_Witness ==
    /\ rs_call.name = "resolve_source_fetches"
    /\ rs_call.file_filter = "main only"
    /\ rs_call.package_filter = "package a only"
    /\ rr_release.fields = {"MD5Sum"}
    /\ rs_run.result.kind = "Ok"
    /\ Len(rs_run.served) = 1
    /\ Len(rs_run.served[1].served.list) = 2
    /\ rs_run.served[1].served.list[2].package = "a"
    /\ Len(rs_run.served[1].served.list[2].files["MD5Sum"].text) = 2
    /\ Len(rs_run.served[1].served.list[2].files["SHA256"].text) = 1
    /\ Len(rs_run.result.fetches) = 2
    /\ \A j \in 1..2 : rs_run.result.fetches[j].fetch.algo = "Md5"

(***************************************************************************)
(* Failures in the middle of a call: two Packages and two Sources files,   *)
(* each of which may fail to be fetched or end with a paragraph whose      *)
(* fields cannot be extracted.                                             *)
(***************************************************************************)
\* A Packages paragraph without Size and a Sources paragraph without a table
\* of files.
BadParagraphs ==
    {BinaryPackageControlFile("a", Field(<<"pool", "a">>), NoField,
         [f \in ChecksumFields |-> Field(GoodHex(f))]),
     DebianSourceControlFile("a", [f \in ChecksumFields |-> NoField])}

AbortServes ==
    [kind \in {"Packages", "Sources", "Contents"} |->
        CASE kind = "Packages" ->
                 FailedServes \cup
                 {Served("ok", <<GoodPackage("a")>>),
                  Served("ok", <<GoodPackage("b"),
                                 BinaryPackageControlFile("a", Field(<<"pool", "a">>),
                                     NoField,
                                     [f \in ChecksumFields |-> Field(GoodHex(f))])>>)}
          [] kind = "Sources" ->
                 FailedServes \cup
                 {Served("ok", <<GoodSource("a")>>),
                  Served("ok", <<GoodSource("b"),
                                 DebianSourceControlFile("a",
                                     [f \in ChecksumFields |-> NoField])>>)}
          [] kind = "Contents" -> {Served("ok", <<>>)}]

AbortInit ==
    /\ rr_release \in
           {ReleaseFile(f,
                <<IndexEntry("Packages", "main", "amd64", FALSE, "Xz", ""),
                  IndexEntry("Packages", "contrib", "amd64", FALSE, "Xz", ""),
                  IndexEntry("Sources", "main", "", FALSE, "Xz", ""),
                  IndexEntry("Sources", "contrib", "", FALSE, "Xz", ""),
                  IndexEntry("Contents", "main", "amd64", FALSE, "Xz", "")>>) :
               f \in {{"SHA256"}, {"MD5Sum"}}}
    /\ rr_preferred = "Xz"
    /\ rr_op = NoQuery
    /\ rr_result = NoAnswer
    /\ rs_repo = [by_hash |-> "no", serves |-> AbortServes]
    /\ rs_call = NoResolveCall
    /\ rs_run = NoRun
    /\ CopyIdle
    /\ FetchIdle

SpecAbort == AbortInit /\ [][ResolveNext]_vars

\* The answer `k` of the call is a failure: the fetch of the index file
\* failed, or the file holds an accepted paragraph whose fields cannot be
\* extracted.
AnswerFails(k) ==
    \/ rs_run.served[k].served.status # "ok"
    \/ \E i \in DOMAIN rs_run.served[k].served.list :
           /\ rs_run.served[k].served.list[i] \in BadParagraphs
           /\ AcceptsPackage(rs_call.package_filter, rs_run.served[k].served.list[i])

\* The error variants the failure of answer `k` may be reported with.
VariantsOfAnswer(k) ==
    CASE rs_run.served[k].served.status = "NotFound" -> {"RepositoryIoPath"}
      [] rs_run.served[k].served.status = "IntegrityMismatch" -> {"Io", "RepositoryIoPath"}
      [] rs_run.served[k].served.status = "ParseError" -> {"ControlParseError"}
      [] OTHER -> {"ControlRequiredFieldMissing"}

\* A call of resolve_package_fetches or resolve_source_fetches is in progress
\* or over.
InResolveFetches ==
    rs_call.name \in {"resolve_package_fetches", "resolve_source_fetches"}

\* C32: when the fetch of a selected index file fails, or an accepted
\* paragraph fails the extraction of its fields, the call is over with that
\* error and returns no fetch, those pushed before included; a call that
\* returns fetches met no failure; and once a call has failed no request of
\* an index file is made for it.
C32_AllOrNothing ==
    /\ [](InResolveFetches =>
            /\ \A k \in DOMAIN rs_run.served :
                   AnswerFails(k) =>
                       /\ k = Len(rs_run.served)
                       /\ rs_run.pc = "done"
                       /\ rs_run.result.kind = "Err"
                       /\ rs_run.result.err.variant \in VariantsOfAnswer(k)
            /\ rs_run.result.kind = "Err" => rs_run.result.fetches = <<>>)
    /\ [][(InResolveFetches /\ rs_run.result.kind = "Err")
              => Len(rs_run'.requests) <= Len(rs_run.requests)]_vars

\* The first Packages file gave a fetch, the second failed its integrity
\* check while no other was in flight: the call failed and returned nothing.
C32_Witness ==
    /\ rs_call.name = "resolve_package_fetches"
    /\ Len(rs_run.served) = 2
    /\ rs_run.served[1].served.status = "ok"
    /\ rs_run.served[2].served.status = "IntegrityMismatch"
    /\ rs_run.fetches # <<>>
    /\ rs_run.pc = "done"
    /\ rs_run.result.kind = "Err"
    /\ rs_run.result.fetches = <<>>

(***************************************************************************)
(* The read of an index file behind its decoder.  The paragraph reader     *)
(* reads the decoded stream to its end; the decoder reads the verified     *)
(* stream below it until its compressed data ends.                         *)
(***************************************************************************)
\* What the index files may hold: one paragraph, read to the end of the
\* verified stream or only to the end of the compressed data, or a failure.
DecodedServes ==
    [kind \in {"Packages", "Sources", "Contents"} |->
        FailedServes \cup
        CASE kind = "Packages" ->
                 {Served(status, <<GoodPackage("a")>>) : status \in {"ok", "UncheckedEnd"}}
          [] kind = "Sources" ->
                 {Served(status, <<GoodSource("a")>>) : status \in {"ok", "UncheckedEnd"}}
          [] kind = "Contents" ->
                 {Served(status, <<>>) : status \in {"ok", "UncheckedEnd"}}]

DecodedInit ==
    /\ rr_release \in ResolveReleaseFiles
    /\ rr_preferred \in {"Gzip", "Xz"}
    /\ rr_op = NoQuery
    /\ rr_result = NoAnswer
    /\ rs_repo = [by_hash |-> "no", serves |-> DecodedServes]
    /\ rs_call = NoResolveCall
    /\ rs_run = NoRun
    /\ CopyIdle
    /\ FetchIdle

SpecDecoded == DecodedInit /\ [][ResolveNext]_vars

\* C31: a resolve operation returns a successful result only when, for
\* every index file it read, the verified stream was read to its end, so
\* that the check of size and digest of the compressed bytes has run.
C31_TerminalCheckRan ==
    rs_run.result.kind = "Ok" =>
        \A i \in DOMAIN rs_run.served : rs_run.served[i].served.status = "ok"

(***************************************************************************)
(* Termination of resolve_package_fetches and resolve_source_fetches: the  *)
(* executor keeps polling the call, so a step of the buffer that stays     *)
(* possible is taken, and every fetch that was started completes.          *)
(***************************************************************************)
SpecTerminates ==
    /\ SourcesInit
    /\ [][ResolveNext]_vars
    /\ WF_vars(PollStart)
    /\ WF_vars(PollComplete)
    /\ WF_vars(PollFinish)
    /\ WF_vars(ContentsComplete)

\* C34: for every value of threads, 0 included, a call of
\* resolve_package_fetches or resolve_source_fetches whose fetches each
\* terminate eventually returns a result or an error.
C34_EventuallyReturns ==
    (rs_call.name \in {"resolve_package_fetches", "resolve_source_fetches"})
        ~> (rs_run.pc = "done")

(***************************************************************************)
(* The selection of the index files to fetch: the collapse, then the        *)
(* caller's file filter, which may look at the compression of an entry.     *)
(***************************************************************************)
\* The file filters of the callers of this section.
SelectFilters == {"every file", "Gzip only"}

SelectInit ==
    /\ rr_release \in ResolveReleaseFiles
    /\ rr_preferred \in {"Gzip", "Xz"}
    /\ rr_op = NoQuery
    /\ rr_result = NoAnswer
    /\ rs_repo = [by_hash |-> "no", serves |-> ResolveServes]
    /\ rs_call = NoResolveCall
    /\ rs_run = NoRun
    /\ CopyIdle
    /\ FetchIdle

SelectNext ==
    \/ \E file_filter \in SelectFilters, threads \in 1..MaxThreads :
          ResolvePackageFetches(file_filter, "every package", threads)
    \/ \E file_filter \in SelectFilters, threads \in 1..MaxThreads :
          ResolveSourceFetches(file_filter, "every package", threads)
    \/ PollStart
    \/ PollComplete
    \/ PollFinish
    \/ ResolveReturn

SpecSelect == SelectInit /\ [][SelectNext]_vars

\* The lines of the Release file that list the logical file of `kind` with
\* the key `key`.
LinesOfKey(kind, key) ==
    {n \in DOMAIN rr_release.entries :
        /\ rr_release.entries[n].kind = kind
        /\ KeyOf(kind, rr_release.entries[n]) = key}

\* The entry that wins the group of `key`, as the table lists it.
WinnerOfKey(kind, key) ==
    LET lines == LinesOfKey(kind, key)
        line == rr_release.entries[CHOOSE n \in lines : TRUE]
    IN  [line EXCEPT !.compression =
            WinnerCompression({rr_release.entries[n].compression : n \in lines})]

\* C35: within one call of resolve_package_fetches no two requests are for
\* the same (component, architecture, is_installer), and within one call of
\* resolve_source_fetches no two are for the same component; every request
\* is for the entry that wins the collapse of its group, in that one
\* compression, and that entry passed the file filter; a call that returns
\* fetches has requested exactly the logical files whose winner the filter
\* accepts, so a file whose winner is rejected is fetched in no compression.
C35_OneFetchPerLogicalFile ==
    InResolveFetches =>
        LET kind == ResolvedKind(rs_call.name)
            requested == {KeyOf(kind, rs_run.requests[i].entry) :
                             i \in DOMAIN rs_run.requests}
            listed == {KeyOf(kind, rr_release.entries[n]) :
                          n \in {m \in DOMAIN rr_release.entries :
                                    rr_release.entries[m].kind = kind}}
        IN  /\ \A i, j \in DOMAIN rs_run.requests :
                   KeyOf(kind, rs_run.requests[i].entry)
                       = KeyOf(kind, rs_run.requests[j].entry) => i = j
            /\ \A i \in DOMAIN rs_run.requests :
                   LET entry == rs_run.requests[i].entry
                   IN  /\ KeyOf(kind, entry) \in listed
                       /\ [entry EXCEPT !.checksum = ""]
                              = WinnerOfKey(kind, KeyOf(kind, entry))
                       /\ AcceptsFile(rs_call.file_filter, entry)
            /\ rs_run.result.kind = "Ok" =>
                   requested = {key \in listed :
                       AcceptsFile(rs_call.file_filter, WinnerOfKey(kind, key))}

\* resolve_package_fetches returned after one request, for the Xz file, on
\* a Release file that lists the Packages file of main/amd64 in Gzip and in
\* Xz, Xz being preferred.
C35_Witness ==
    /\ rs_call.name = "resolve_package_fetches"
    /\ rr_preferred = "Xz"
    /\ Len(rr_release.entries) = 2
    /\ \A n \in DOMAIN rr_release.entries :
           /\ rr_release.entries[n].kind = "Packages"
           /\ PackagesKey(rr_release.entries[n]) = <<"main", "amd64", FALSE>>
    /\ rs_run.pc = "done"
    /\ rs_run.result.kind = "Ok"
    /\ Len(rs_run.requests) = 1
    /\ rs_run.requests[1].entry.compression = "Xz"

\* On the same Release file a filter that accepts Gzip entries only left
\* nothing to fetch: the call returned without a request.
C35_WitnessRejected ==
    /\ rs_call.name = "resolve_package_fetches"
    /\ rs_call.file_filter = "Gzip only"
    /\ rr_preferred = "Xz"
    /\ Len(rr_release.entries) = 2
    /\ \A n \in DOMAIN rr_release.entries :
           /\ rr_release.entries[n].kind = "Packages"
           /\ PackagesKey(rr_release.entries[n]) = <<"main", "amd64", FALSE>>
    /\ rs_run.pc = "done"
    /\ rs_run.result.kind = "Ok"
    /\ rs_run.requests = <<>>

(***************************************************************************)
(* The lifetime of a ReleaseReader: resolve operations, retrieve_checksum   *)
(* and set_preferred_compression in any order.  The resolve operations and  *)
(* retrieve_checksum borrow the reader shared; set_preferred_compression    *)
(* borrows it exclusively and so runs only while no resolve future is       *)
(* alive.  A caller may drop the future of a resolve operation at any of    *)
(* its await points.                                                        *)
(***************************************************************************)
\* Line 298, &mut self: no future of a resolve operation holds the reader.
SetPreferredBetweenCalls(compression) ==
    /\ rs_run.pc = "idle"
    /\ SetPreferredCompression(compression)

\* The future of a resolve operation is dropped before it completed: its
\* buffer, the futures in it and the Vec of fetches go with it.
ResolveAbandoned ==
    /\ rs_run.pc \notin {"idle", "done"}
    /\ rs_call' = NoResolveCall
    /\ rs_run' = NoRun
    /\ UNCHANGED rs_repo
    /\ UNCHANGED notResolveVars

LifetimeNext ==
    \/ ResolveNext
    \/ ResolveAbandoned
    \/ CallRetrieveChecksum
    \/ \E compression \in Compressions : SetPreferredBetweenCalls(compression)

SpecLifetime == AbortInit /\ [][LifetimeNext]_vars

\* C37: over any sequence of reader operations the parsed Release file never
\* changes, the preferred compression changes only through
\* set_preferred_compression, and retrieve_checksum has the same result
\* before and after every step, a failing resolve operation, the return
\* from one and the drop of one included; a call of retrieve_checksum
\* returns that result.
C37_ReadPathMutatesNothing ==
    [][/\ rr_release' = rr_release
       /\ OnlySetChangesPreferred
       /\ RetrieveChecksum(rr_release)' = RetrieveChecksum(rr_release)
       /\ rr_op'.name = "retrieve_checksum" =>
              rr_result' = RetrieveChecksum(rr_release)]_vars

\* retrieve_checksum was called on a reader whose resolve_package_fetches
\* had just failed, after set_preferred_compression(Gzip), and returned
\* the checksum of the Release file's table.
C37_Witness ==
    /\ rs_call.name = "resolve_package_fetches"
    /\ rs_run.pc = "done"
    /\ rs_run.result.kind = "Err"
    /\ rr_preferred = "Gzip"
    /\ rr_op.name = "retrieve_checksum"
    /\ rr_result = OkChecksum(NegotiatedChecksum)

(***************************************************************************)
(* RepositoryRootReader::release_reader.  Strings are sequences of         *)
(* characters; "dists" stands for its five letters.                        *)
(***************************************************************************)
DistributionChars == {"/", "a", "b"}

\* The distribution strings a caller may pass.
Distributions == UNION {[1..n -> DistributionChars] : n \in 0..MaxDistribution}

RECURSIVE TrimStartMatches(_, _)
\* str::trim_start_matches(c)
TrimStartMatches(s, c) ==
    IF s # <<>> /\ Head(s) = c THEN TrimStartMatches(Tail(s), c) ELSE s

RECURSIVE TrimEndMatches(_, _)
\* str::trim_end_matches(c)
TrimEndMatches(s, c) ==
    IF s # <<>> /\ s[Len(s)] = c
    THEN TrimEndMatches(SubSeq(s, 1, Len(s) - 1), c)
    ELSE s

\* str::trim_matches(c)
TrimMatches(s, c) == TrimEndMatches(TrimStartMatches(s, c), c)

\* Mutant of DistributionPath: the distribution is used as it is given.
DistributionPathUntrimmed(distribution) == <<"dists", "/">> \o distribution

\* Lines 149-152: format!("dists/{}", distribution.trim_matches('/'))
DistributionPath(distribution) ==
    <<"dists", "/">> \o TrimMatches(distribution, "/")

\* What release_reader_with_distribution_path(path) returns: a reader bound
\* to the path, or an error of the fetch of the release file.
ReaderAt(path) == [kind |-> "Ok", path |-> path, signed |-> FALSE, err |-> NoError]

ReaderInit ==
    /\ FetchRest
    /\ rf_pool = [p \in Paths |-> Absent]
    /\ rf_dist = [p \in ReleasePaths |-> "absent"]
    /\ CopyIdle
    /\ ReleaseIdle
    /\ ResolveIdle

\* Lines 148-154: release_reader computes the path and calls
\* release_reader_with_distribution_path with it.
ReleaseReader(distribution) ==
    /\ rf_pc = "idle"
    /\ rf_op' = Op("release_reader", distribution, "", NoFetch)
    /\ rf_trace' = <<CallFetch("release_reader_with_distribution_path",
                               DistributionPath(distribution))>>
    /\ rf_pc' = "delegate"
    /\ UNCHANGED <<rf_pool, rf_dist, rf_stream, rf_sub, rf_attempt, rf_result, rf_read>>
    /\ UNCHANGED notFetchVars

\* Lines 161-164: the implementation answers for the path it was given, and
\* its answer is release_reader's (line 153).
ReleaseReaderWithDistributionPath ==
    /\ rf_pc = "delegate"
    /\ \/ rf_result' = ReaderAt(rf_trace[Len(rf_trace)].p1)
       \/ \E kind \in {"NotFound"} \cup TransportErrorKinds :
              rf_result' = ErrOutcome(RepositoryIoPath(rf_trace[Len(rf_trace)].p1, kind))
       \/ rf_result' = ErrOutcome(ParseError("ControlParseError"))
    /\ rf_pc' = "done"
    /\ UNCHANGED <<rf_op, rf_pool, rf_dist, rf_trace, rf_stream, rf_sub, rf_attempt,
                   rf_read>>
    /\ UNCHANGED notFetchVars

ReaderNext ==
    \/ \E distribution \in Distributions : ReleaseReader(distribution)
    \/ ReleaseReaderWithDistributionPath
    \/ FetchFinish

SpecReader == ReaderInit /\ [][ReaderNext]_vars

\* `n` times the character '/'.
Slashes(n) == [i \in 1..n |-> "/"]

\* `t` is `d` without its leading and its trailing '/' characters: the
\* characters between them, in their order.
IsTrimmed(t, d) ==
    /\ t = <<>> \/ (t[1] # "/" /\ t[Len(t)] # "/")
    /\ \E i \in 0..Len(d) : \E j \in 0..Len(d) : d = Slashes(i) \o t \o Slashes(j)

\* C23: release_reader(d) asks for one release reader, that of the path
\* "dists/" followed by d without its leading and trailing '/' (the '/' inside
\* are kept), and what it returns is the reader bound to that path.
C23_ReleaseReaderPath ==
    rf_op.name = "release_reader" =>
        /\ Len(rf_trace) = 1
        /\ rf_trace[1].name = "release_reader_with_distribution_path"
        /\ SubSeq(rf_trace[1].p1, 1, 2) = <<"dists", "/">>
        /\ IsTrimmed(SubSeq(rf_trace[1].p1, 3, Len(rf_trace[1].p1)), rf_op.p1)
        /\ rf_result.kind = "Ok" => rf_result.path = rf_trace[1].p1

\* release_reader("/a/b/") returned the reader of dists/a/b.
C23_Witness ==
    /\ rf_op.name = "release_reader"
    /\ rf_op.p1 = <<"/", "a", "/", "b", "/">>
    /\ rf_result.kind = "Ok"
    /\ rf_result.path = <<"dists", "/", "a", "/", "b">>

\* C38: for every distribution string, the empty one and those made of '/'
\* only included, the path release_reader computes and binds the release
\* reader to neither begins nor ends with '/'.
C38_PathHasNoOuterSlash ==
    rf_op.name = "release_reader" =>
        /\ rf_trace[1].p1[1] # "/"
        /\ rf_trace[1].p1[Len(rf_trace[1].p1)] # "/"
        /\ rf_result.kind = "Ok" =>
               /\ rf_result.path[1] # "/"
               /\ rf_result.path[Len(rf_result.path)] # "/"

(***************************************************************************)
(* reader_from_str and writer_from_str.  A string is a sequence of tokens: *)
(* "://" and "/" stand for themselves, every other token for a run of      *)
(* letters, digits and '-'.                                                *)
(***************************************************************************)
Schemes == {"file", "http", "https", "null", "s3", "ftp"}

\* The names of SinkWriterVerifyBehavior::from_str.
BehaviorNames ==
    {"missing", "exists-no-integrity-check", "exists-integrity-verified",
     "exists-integrity-mismatch"}

\* The paths of the strings passed: nothing, or '/' and what follows it.
UrlPaths ==
    {<<>>} \cup
    {p \in UNION {[1..n -> {"/", "a", "b"}] : n \in 1..MaxPath} : p[1] = "/"}

UrlHosts == {<<>>, <<"a">>, <<"localhost">>} \cup {<<b>> : b \in BehaviorNames}

\* The strings passed to reader_from_str and writer_from_str: URLs of every
\* scheme, a string that begins with "://", and plain paths.
FromStrInputs ==
    {scheme \o <<"://">> \o host \o path :
        scheme \in {<<>>} \cup {<<n>> : n \in Schemes},
        host \in UrlHosts, path \in UrlPaths}
    \cup UrlPaths
    \cup {<<"a">> \o path : path \in UrlPaths}

\* The place of the first `token` in `s`, 0 when `s` has none.
FirstOf(s, token) ==
    IF \E i \in DOMAIN s : s[i] = token
    THEN CHOOSE i \in DOMAIN s : s[i] = token /\ \A j \in 1..(i - 1) : s[j] # token
    ELSE 0

\* s.contains("://")
ContainsSeparator(s) == FirstOf(s, "://") # 0

\* A parsed URL; `host` is empty when host_str() is None.
Url(scheme, host, path) ==
    [ok |-> TRUE, scheme |-> scheme, host |-> host, path |-> path]

UrlParseError == [ok |-> FALSE, scheme |-> "", host |-> <<>>, path |-> <<>>]

\* The schemes the URL standard calls special, besides file.
SpecialSchemes == {"http", "https", "ftp"}

RECURSIVE SkipSlashes(_)
SkipSlashes(s) == IF s # <<>> /\ Head(s) = "/" THEN SkipSlashes(Tail(s)) ELSE s

\* url::Url::parse(s) for a string with "://": the scheme is what precedes
\* "://" and has to be one name; the host runs to the next '/', after any
\* further '/' when the scheme is special; the rest is the path, "/" when a
\* special or file URL has none.  A special URL needs a host.
UrlParse(s) ==
    LET at == FirstOf(s, "://")
        rest == SubSeq(s, at + 1, Len(s))
        scheme == s[1]
        authority == IF scheme \in SpecialSchemes THEN SkipSlashes(rest) ELSE rest
        slash == FirstOf(authority, "/")
        host == IF slash = 0 THEN authority ELSE SubSeq(authority, 1, slash - 1)
        path == IF slash = 0 THEN <<>> ELSE SubSeq(authority, slash, Len(authority))
    IN  IF at # 2 \/ s[1] = "/"
        THEN UrlParseError
        ELSE IF FirstOf(host, "://") # 0
        THEN UrlParseError
        ELSE IF scheme \in SpecialSchemes /\ host = <<>>
        THEN UrlParseError
        ELSE Url(scheme, host,
                 IF path = <<>> /\ scheme \in SpecialSchemes \cup {"file"}
                 THEN <<"/">> ELSE path)

\* What reader_from_str or writer_from_str ends with: a reader or writer, an
\* error, or the abort of the caller's thread by a panic.
Made(kind, root, extra) ==
    [kind |-> kind, root |-> root, extra |-> extra, variant |-> "", what |-> <<>>]

FromStrFailed(variant, what) ==
    [kind |-> "Err", root |-> <<>>, extra |-> <<>>, variant |-> variant, what |-> what]

Aborted ==
    [kind |-> "abort", root |-> <<>>, extra |-> <<>>, variant |-> "", what |-> <<>>]

\* Url::to_file_path(): the path of a file URL without a host, or whose host
\* is localhost; Err for every other host.
ToFilePath(url) ==
    IF url.host \in {<<>>, <<"localhost">>}
    THEN [ok |-> TRUE, path |-> url.path]
    ELSE [ok |-> FALSE, path |-> <<>>]

\* Mutant of ReaderFromStrOf: every URL that parses gives an HTTP reader.
ReaderFromStrAlwaysHttp(s) ==
    IF ContainsSeparator(s)
    THEN LET url == UrlParse(s)
         IN  IF ~url.ok THEN FromStrFailed("Url", s)
             ELSE Made("HttpRepositoryClient", <<url.scheme>> \o url.host, url.path)
    ELSE Made("FilesystemRepositoryReader", s, <<>>)

\* Lines 1083-1102.
ReaderFromStrOf(s) ==
    IF ContainsSeparator(s)
    THEN LET url == UrlParse(s)
         IN  IF ~url.ok THEN FromStrFailed("Url", s)
             ELSE CASE url.scheme = "file" ->
                           IF ToFilePath(url).ok
                           THEN Made("FilesystemRepositoryReader",
                                     ToFilePath(url).path, <<>>)
                           ELSE Aborted
                    [] url.scheme \in {"http", "https"} ->
                           Made("HttpRepositoryClient", <<url.scheme>> \o url.host,
                                url.path)
                    [] OTHER -> FromStrFailed("RepositoryReaderUnrecognizedUrl", s)
    ELSE Made("FilesystemRepositoryReader", s, <<>>)

\* SinkWriterVerifyBehavior::from_str
VerifyBehaviorFromStr(host) ==
    CASE host = <<"missing">> -> [ok |-> TRUE, behavior |-> "Missing"]
      [] host = <<"exists-no-integrity-check">> ->
             [ok |-> TRUE, behavior |-> "ExistsNoIntegrityCheck"]
      [] host = <<"exists-integrity-verified">> ->
             [ok |-> TRUE, behavior |-> "ExistsIntegrityVerified"]
      [] host = <<"exists-integrity-mismatch">> ->
             [ok |-> TRUE, behavior |-> "ExistsIntegrityMismatch"]
      [] OTHER -> [ok |-> FALSE, behavior |-> ""]

\* Mutant of SinkWriterOf: the host is not read.
SinkWriterAlwaysMissing(url) == Made("SinkWriter", <<>>, "Missing")

\* Lines 1122-1133: the sink writer of a null URL.
SinkWriterOf(url) ==
    IF url.host # <<>>
    THEN IF VerifyBehaviorFromStr(url.host).ok
         THEN Made("SinkWriter", <<>>, VerifyBehaviorFromStr(url.host).behavior)
         ELSE FromStrFailed("SinkWriterVerifyBehaviorUnknown", url.host)
    ELSE Made("SinkWriter", <<>>, "Missing")

\* An S3 prefix: Some(text) or None.
NoPrefix == [some |-> FALSE, text |-> <<>>]

SomePrefix(text) == [some |-> TRUE, text |-> text]

\* Lines 1136-1146: the bucket and the prefix of an s3 URL.
S3WriterOf(url) ==
    LET trimmed == TrimMatches(url.path, "/")
        slash == FirstOf(trimmed, "/")
    IN  IF slash # 0
        THEN Made("S3Writer", SubSeq(trimmed, 1, slash - 1),
                  SomePrefix(SubSeq(trimmed, slash + 1, Len(trimmed))))
        ELSE Made("S3Writer", url.path, NoPrefix)

\* Lines 1111-1153, but for the failure of s3::get_bucket_region.
WriterFromStrOf(s) ==
    IF ContainsSeparator(s)
    THEN LET url == UrlParse(s)
         IN  IF ~url.ok THEN FromStrFailed("Url", s)
             ELSE CASE url.scheme = "file" ->
                           IF ToFilePath(url).ok
                           THEN Made("FilesystemRepositoryWriter",
                                     ToFilePath(url).path, <<>>)
                           ELSE Aborted
                    [] url.scheme = "null" -> SinkWriterOf(url)
                    [] url.scheme = "s3" -> S3WriterOf(url)
                    [] OTHER -> FromStrFailed("RepositoryWriterUnrecognizedUrl", s)
    ELSE Made("FilesystemRepositoryWriter", s, <<>>)

FromStrInit ==
    /\ FetchRest
    /\ rf_pool = [p \in Paths |-> Absent]
    /\ rf_dist = [p \in ReleasePaths |-> "absent"]
    /\ CopyIdle
    /\ ReleaseIdle
    /\ ResolveIdle

\* A call ends: with its value, or with the abort of the thread.
FromStrEnds(name, s, result) ==
    /\ rf_pc = "idle"
    /\ rf_op' = Op(name, s, "", NoFetch)
    /\ rf_result' = result
    /\ rf_pc' = IF result.kind = "abort" THEN "aborted" ELSE "done"
    /\ UNCHANGED <<rf_pool, rf_dist, rf_trace, rf_stream, rf_sub, rf_attempt, rf_read>>
    /\ UNCHANGED notFetchVars

\* reader_from_str(s)
ReaderFromStr(s) ==
    /\ rf_pc = "idle"
    /\ FromStrEnds("reader_from_str", s, ReaderFromStrOf(s))

\* writer_from_str(s): s3::get_bucket_region(bucket).await? may fail.
WriterFromStr(s) ==
    /\ rf_pc = "idle"
    /\ \/ FromStrEnds("writer_from_str", s, WriterFromStrOf(s))
       \/ /\ WriterFromStrOf(s).kind = "S3Writer"
          /\ FromStrEnds("writer_from_str", s,
                 FromStrFailed("S3", WriterFromStrOf(s).root))

FromStrNext ==
    \/ \E s \in FromStrInputs : ReaderFromStr(s)
    \/ \E s \in FromStrInputs : WriterFromStr(s)
    \/ FetchFinish

SpecFromStr == FromStrInit /\ [][FromStrNext]_vars

\* The string of the call is the URL scheme://host path.
CalledWithUrl(name, scheme, host, path) ==
    /\ rf_op.name = name
    /\ rf_op.p1 = <<scheme, "://">> \o host \o path

\* The path a URL with `path` has: "/" when a file or http URL has none.
RootedPath(path) == IF path = <<>> THEN <<"/">> ELSE path

\* The call returned a filesystem reader rooted at `root`.
FilesystemReaderAt(root) ==
    /\ rf_result.kind = "FilesystemRepositoryReader"
    /\ rf_result.root = root

\* The call of reader_from_str failed with `variant`.
ReaderFailed(variant) ==
    /\ rf_result.kind = "Err"
    /\ rf_result.variant = variant
    /\ rf_result.what = rf_op.p1

\* What follows `host` in the string of the call, `skip` tokens before it.
PathAfter(skip, host) == SubSeq(rf_op.p1, skip + Len(host) + 1, Len(rf_op.p1))

\* The hosts and paths the string of the call can be read with.
HostsAndPaths(skip) ==
    {hp \in {<<host, PathAfter(skip, host)>> : host \in UrlHosts} : hp[2] \in UrlPaths}

\* What C25 says of every string but the file URLs.
ReaderFromStrButFile ==
    rf_op.name = "reader_from_str" =>
    /\ (rf_op.name = "reader_from_str" /\ ~\E i \in DOMAIN rf_op.p1 : rf_op.p1[i] = "://")
           => FilesystemReaderAt(rf_op.p1)
    /\ \A hp \in HostsAndPaths(2) :
        /\ \A scheme \in {"http", "https"} :
               (CalledWithUrl("reader_from_str", scheme, hp[1], hp[2]) /\ hp[1] # <<>>) =>
                   /\ rf_result.kind = "HttpRepositoryClient"
                   /\ rf_result.root = <<scheme>> \o hp[1]
                   /\ rf_result.extra = RootedPath(hp[2])
        /\ \A scheme \in {"null", "s3"} \cup (IF hp[1] # <<>> THEN {"ftp"} ELSE {}) :
               CalledWithUrl("reader_from_str", scheme, hp[1], hp[2]) =>
                   ReaderFailed("RepositoryReaderUnrecognizedUrl")
    /\ CalledWithUrl("reader_from_str", "ftp", <<>>, <<>>) => ReaderFailed("Url")
    /\ \A hp \in HostsAndPaths(1) :
           (rf_op.name = "reader_from_str" /\ rf_op.p1 = <<"://">> \o hp[1] \o hp[2]) =>
               ReaderFailed("Url")

BehaviorNamed ==
    "missing" :> "Missing"
    @@ "exists-no-integrity-check" :> "ExistsNoIntegrityCheck"
    @@ "exists-integrity-verified" :> "ExistsIntegrityVerified"
    @@ "exists-integrity-mismatch" :> "ExistsIntegrityMismatch"

\* The call returned a sink writer that answers verify_path with `behavior`.
SinkWriterWith(behavior) ==
    /\ rf_result.kind = "SinkWriter"
    /\ rf_result.extra = behavior

\* C26: writer_from_str on a null URL returns a sink writer whose verify
\* behaviour is the one the host names, Missing when the URL has no host, and
\* fails with SinkWriterVerifyBehaviorUnknown(host) for every other host; a
\* URL whose scheme is none of file, null and s3 fails with
\* WriterUnrecognizedUrl(s).
C26_NullWriter ==
    rf_op.name = "writer_from_str" =>
        \A hp \in HostsAndPaths(2) :
            /\ CalledWithUrl("writer_from_str", "null", hp[1], hp[2]) =>
                   IF hp[1] = <<>>
                   THEN SinkWriterWith("Missing")
                   ELSE IF \E n \in DOMAIN BehaviorNamed : hp[1] = <<n>>
                   THEN SinkWriterWith(BehaviorNamed[hp[1][1]])
                   ELSE /\ rf_result.kind = "Err"
                        /\ rf_result.variant = "SinkWriterVerifyBehaviorUnknown"
                        /\ rf_result.what = hp[1]
            /\ \A scheme \in {"http", "https", "ftp"} :
                   (CalledWithUrl("writer_from_str", scheme, hp[1], hp[2]) /\ hp[1] # <<>>) =>
                       /\ rf_result.kind = "Err"
                       /\ rf_result.variant = "RepositoryWriterUnrecognizedUrl"
                       /\ rf_result.what = rf_op.p1

\* writer_from_str("null://exists-integrity-verified") returned the sink
\* writer that reports every path as verified.
C26_Witness ==
    /\ CalledWithUrl("writer_from_str", "null", <<"exists-integrity-verified">>, <<>>)
    /\ SinkWriterWith("ExistsIntegrityVerified")

\* writer_from_str("null://a") failed: a is no behaviour.
C26_WitnessUnknown ==
    /\ CalledWithUrl("writer_from_str", "null", <<"a">>, <<>>)
    /\ rf_result.variant = "SinkWriterVerifyBehaviorUnknown"

\* The call returned an S3 writer for `bucket`, and for `prefix` when there is
\* one.
S3WriterFor(bucket, prefix) ==
    /\ rf_result.kind = "S3Writer"
    /\ rf_result.root = bucket
    /\ rf_result.extra = prefix

\* The tokens of `path` after its first, the '/'.
AfterSlash(path) == SubSeq(path, 2, Len(path))

\* C27: writer_from_str on s3://BUCKET/PREFIX returns, when the region of the
\* bucket is found, an S3 writer for bucket BUCKET with prefix PREFIX, and on
\* s3://BUCKET an S3 writer for bucket BUCKET with no prefix; the bucket name
\* never contains a '/'.
C27_S3BucketAndPrefix ==
    (rf_op.name = "writer_from_str" /\ rf_result.kind = "S3Writer") =>
        /\ \A i \in DOMAIN rf_result.root : rf_result.root[i] # "/"
        /\ \A hp \in HostsAndPaths(2) :
               (CalledWithUrl("writer_from_str", "s3", hp[1], hp[2]) /\ hp[1] # <<>>) =>
                   IF Len(hp[2]) > 1
                   THEN S3WriterFor(hp[1], SomePrefix(AfterSlash(hp[2])))
                   ELSE S3WriterFor(hp[1], NoPrefix)

\* C39: reader_from_str and writer_from_str end, for every string, by
\* returning a reader, a writer or an error value: no string makes them abort.
C39_FromStrReturns ==
    /\ rf_pc # "aborted"
    /\ rf_op.name \in {"reader_from_str", "writer_from_str"} => rf_result.kind # "abort"

(***************************************************************************)
(* PublishEvent::is_progress and is_loggable.  An event is handed to the   *)
(* progress callback, which asks it one of the two questions.              *)
(***************************************************************************)
\* A PublishEvent: its variant and what it carries, "" and 0 where the
\* variant carries no such thing.
PublishEvent(variant, path, other, count) ==
    [variant |-> variant, path |-> path, other |-> other, count |-> count]

\* Lines 834-884: the values of the enum.
PublishEvents ==
    {PublishEvent(v, "", "", n) :
        v \in {"ResolvedPoolArtifacts", "PoolArtifactsToPublish",
               "WriteSequenceBeginWithTotalBytes", "WriteSequenceProgressBytes"},
        n \in 0..MaxEntries}
    \cup {PublishEvent(v, p, "", 0) :
        v \in {"PoolArtifactCurrent", "PoolArtifactMissing", "IndexFileToWrite",
               "VerifyingDestinationPath", "CopyPhaseBegin", "CopyPhaseEnd",
               "CopyIndicesPathNotFound", "PathCopyNoop"},
        p \in Paths}
    \cup {PublishEvent(v, p, "", n) :
        v \in {"PoolArtifactCreated", "IndexFileWritten", "PathCopied"},
        p \in Paths, n \in 0..MaxEntries}
    \cup {PublishEvent("CopyingPath", p, q, 0) : p \in Paths, q \in Paths}
    \cup {PublishEvent("WriteSequenceFinished", "", "", 0)}

\* The members of a sequence of events.
EventSet(events) == {events[i] : i \in DOMAIN events}

\* The PublishEvent an event of the trace of copy_from is.
PublishEventOf(entry) == PublishEvent(entry.name, entry.p1, entry.p2, 0)

\* The events copy_from hands to a callback, over all its calls.
CopyFromEvents ==
    UNION {{PublishEventOf(e) : e \in EventSet(VerifyingEvents(CopyArgs(src, exp, dst, TRUE))
                                            \o CopyingEvents(CopyArgs(src, exp, dst, TRUE)))} :
           src \in Paths, dst \in Paths, exp \in {NoExpected}}

\* Mutant of IsProgress: no event is a progress update.
IsProgressNever(event) == FALSE

\* Lines 949-956.
IsProgress(event) ==
    event.variant \in {"WriteSequenceBeginWithTotalBytes", "WriteSequenceProgressBytes",
                       "WriteSequenceFinished"}

\* Lines 944-946.
IsLoggable(event) == ~IsProgress(event)

\* The answer of one of the two methods.
Answered(value) == [kind |-> "bool", value |-> value]

EventsInit ==
    /\ cf_pc = "idle"
    /\ cf_args = [source_path |-> "", expected_content |-> NoExpected,
                  dest_path |-> "", has_cb |-> TRUE]
    /\ cf_reader = [p \in Paths |-> Absent]
    /\ cf_writer = Writer("sink", "Missing", [p \in Paths |-> Absent])
    /\ cf_trace \in {<<event>> : event \in PublishEvents \cup CopyFromEvents}
    /\ cf_verification = "none"
    /\ cf_stream = NoStream
    /\ cf_result = NoResult
    /\ cf_run = "first"
    /\ cf_first = NoResult
    /\ FetchIdle
    /\ ReleaseIdle
    /\ ResolveIdle

\* event.is_progress()
IsProgressCall ==
    /\ cf_pc = "idle"
    /\ cf_pc' = "is_progress"
    /\ cf_result' = Answered(IsProgress(cf_trace[1]))
    /\ UNCHANGED <<cf_args, cf_reader, cf_writer, cf_trace, cf_verification, cf_stream,
                   cf_run, cf_first>>
    /\ UNCHANGED notCopyVars

\* event.is_loggable()
IsLoggableCall ==
    /\ cf_pc = "idle"
    /\ cf_pc' = "is_loggable"
    /\ cf_result' = Answered(IsLoggable(cf_trace[1]))
    /\ UNCHANGED <<cf_args, cf_reader, cf_writer, cf_trace, cf_verification, cf_stream,
                   cf_run, cf_first>>
    /\ UNCHANGED notCopyVars

\* The callback returns.
EventsReturn ==
    /\ cf_pc \in {"is_progress", "is_loggable"}
    /\ cf_pc' = "idle"
    /\ cf_result' = NoResult
    /\ UNCHANGED <<cf_args, cf_reader, cf_writer, cf_trace, cf_verification, cf_stream,
                   cf_run, cf_first>>
    /\ UNCHANGED notCopyVars

EventsNext == IsProgressCall \/ IsLoggableCall \/ EventsReturn

SpecEvents == EventsInit /\ [][EventsNext]_vars

\* The variants that report the progress of a write sequence.
WriteSequenceVariants ==
    {"WriteSequenceBeginWithTotalBytes", "WriteSequenceProgressBytes",
     "WriteSequenceFinished"}

\* C28: is_progress answers true exactly for the three WriteSequence variants
\* and is_loggable answers the opposite; for the events copy_from emits,
\* VerifyingDestinationPath and CopyingPath, is_loggable answers true and
\* is_progress false.
C28_ProgressAndLoggable ==
    /\ cf_pc = "is_progress" =>
           /\ cf_result.value = (cf_trace[1].variant \in WriteSequenceVariants)
           /\ cf_trace[1] \in CopyFromEvents => cf_result.value = FALSE
    /\ cf_pc = "is_loggable" =>
           /\ cf_result.value = (cf_trace[1].variant \notin WriteSequenceVariants)
           /\ cf_trace[1] \in CopyFromEvents => cf_result.value = TRUE
    /\ \A event \in CopyFromEvents :
           event.variant \in {"VerifyingDestinationPath", "CopyingPath"}

\* is_progress answered true for the progress of a write sequence.
C28_Witness ==
    /\ cf_pc = "is_progress"
    /\ cf_trace[1].variant = "WriteSequenceProgressBytes"
    /\ cf_result.value = TRUE

\* is_loggable answered true for the CopyingPath event of copy_from.
C28_WitnessCopying ==
    /\ cf_pc = "is_loggable"
    /\ cf_trace[1].variant = "CopyingPath"
    /\ cf_trace[1] \in CopyFromEvents
    /\ cf_result.value = TRUE

====
